---- MODULE Spec2Model ----
(***************************************************************************)
(* State-machine model of the BusTub storage core: the LRU-K replacer, the *)
(* buffer pool manager with its disk scheduler worker, and the clients     *)
(* that hold page pointers / basic page guards.                            *)
(***************************************************************************)
EXTENDS Integers, Sequences, FiniteSets, TLC

\* ------------------------------------------------------------------ bounds
PoolSize == 2        \* pool_size_: frames 0..PoolSize-1
ReplacerFrames == 2  \* replacer_size_ of a replacer used on its own
NumPages == 3        \* AllocatePage is called at most NumPages times
MaxK == 3            \* k_ is configured in 1..MaxK
MaxData == 1         \* page content is a value in 0..MaxData (0 = zeroed memory)
MaxAccess == 3       \* RecordAccess is not called on a frame whose count is MaxAccess
MaxList == 3         \* RecordAccess is not called when a list holds MaxList nodes
MaxWrap == 1         \* Remove is not called once curr_size_ wrapped MaxWrap below 0
MaxGuards == 1       \* client handles (raw pointers / basic guards) alive at once
ScanFrames == 4      \* replacer_size_ of the replacer of the scan-resistance scenario
MaxRequests == 3     \* DiskRequests scheduled during the life of one DiskScheduler
MaxThreads == 2      \* threads that use page guards
MaxObjects == 2      \* page guard objects alive at once
MaxLatch == 1        \* shared holds one thread has on one page latch

INVALID_PAGE_ID == -1
NoFrame == -1            \* nullptr as a Page* / an unset frame_id_t

Frames == 0 .. (PoolSize - 1)
PageIds == 0 .. (NumPages - 1)
Data == 0 .. MaxData
Slots == 1 .. MaxGuards

VARIABLES
  replacer_,       \* the LRUKReplacer object (record of its fields)
  pages_,          \* frame -> Page metadata and content
  free_list_,      \* std::list<frame_id_t>
  page_table_,     \* page id -> frame id, NoFrame when the key is absent
  next_page_id_,   \* AllocatePage counter
  call,            \* the call that holds latch_ (op = "idle": latch_ is free)
  request_queue_,  \* DiskScheduler::request_queue_
  worker,          \* the background thread: its position and current request
  future,          \* state of the promise the latch holder waits on
  disk,            \* DiskManager content: page id -> data
  guards,          \* slot -> client handle (raw Page* or BasicPageGuard)
  expect,          \* page id -> bytes of the last fetch/modify/unpin(true), -1 if none
  ret,             \* the last returned call and its result
  proc,            \* "running", or "crashed" (abort / undefined behaviour)
  scan,            \* the caller of the scan-resistance scenario: its frames, position, results
  callbacks,       \* promise id -> number of set_value calls on DiskRequest::callback_
  bufs,            \* buffer id -> content of the memory DiskRequest::data_ points to
  dtor,            \* position of ~DiskScheduler: "live", "joining", "joined"
  dlog,            \* history: requests as enqueued, disk-manager calls as made, futures returned
  objs,            \* guard object -> BasicPageGuard / ReadPageGuard / WritePageGuard fields
  thr,             \* thread -> what it is in the middle of (a pool call, a latch request)
  rwlatch_,        \* frame -> Page::rwlatch_: the writer and each thread's shared holds
  exec,            \* the executor under test: its members, its children, what it emitted
  ht               \* the DiskExtendibleHashTable under test: its pages, latches and history

\* state of the callers and observers that the pool, replacer and worker never touch
scanVars == <<scan>>
schedVars == <<callbacks, bufs, dtor, dlog>>
guardVars == <<objs, thr, rwlatch_>>
execVars == <<exec>>
hashVars == <<ht>>
auxVars == <<scanVars, schedVars, guardVars, execVars, hashVars>>

vars == <<replacer_, pages_, free_list_, page_table_, next_page_id_, call,
          request_queue_, worker, future, disk, guards, expect, ret, proc,
          scan, callbacks, bufs, dtor, dlog, objs, thr, rwlatch_, exec, ht>>

bpmVars == <<pages_, free_list_, page_table_, next_page_id_, call,
             request_queue_, worker, future, disk, guards, expect>>

\* ------------------------------------------------------- sequence helpers
RECURSIVE RemoveFirst(_, _)
\* list.erase(it) where it is the node of x nearest to the front
RemoveFirst(s, x) ==
  IF s = <<>> THEN <<>>
  ELSE IF Head(s) = x THEN Tail(s)
  ELSE <<Head(s)>> \o RemoveFirst(Tail(s), x)

RECURSIVE Count(_, _)
Count(s, x) ==
  IF s = <<>> THEN 0
  ELSE (IF Head(s) = x THEN 1 ELSE 0) + Count(Tail(s), x)

\* ========================================================================
\* LRUKReplacer
\* ========================================================================
\* history_map_ / cache_map_ hold, per frame, the iterator of the node pushed
\* last for it; push_front puts that node nearer to the front than any older
\* node of the frame, so the mapped node is the first occurrence in the list
\* and the maps are modelled by their key sets.
\* curr_size_ is a size_t: it is kept as the signed representative of its
\* value modulo 2^64, so a wrapped counter shows as a negative number.

LRUKReplacer(num_frames, k) ==
  [ k_ |-> k,
    access_count_ |-> [f \in 0 .. (num_frames - 1) |-> 0],
    is_evictable_map_ |-> [f \in 0 .. (num_frames - 1) |-> FALSE],
    history_list_ |-> <<>>,
    history_map_ |-> {},
    cache_list_ |-> <<>>,
    cache_map_ |-> {},
    curr_size_ |-> 0 ]

\* list.erase(map[f]): the mapped node is removed; when the map has no key f,
\* operator[] yields a value-initialised iterator and the erase is undefined:
\* the process dies, or it runs on with no node removed.
EraseMapped(list, map, f) ==
  IF f \in map
    THEN { [list |-> RemoveFirst(list, f), crashed |-> FALSE] }
    ELSE { [list |-> list, crashed |-> TRUE], [list |-> list, crashed |-> FALSE] }

RecordAccess(r, f) ==
  LET c == r.access_count_[f] + 1
      r1 == [r EXCEPT !.access_count_[f] = c]
  IN IF c < r.k_
       THEN { [rep |-> [r1 EXCEPT !.history_list_ = <<f>> \o @,
                                  !.history_map_ = @ \cup {f}],
               crashed |-> FALSE] }
     ELSE IF c = r.k_
       THEN { [rep |-> [r1 EXCEPT !.history_list_ = e.list,
                                  !.history_map_ = @ \ {f},
                                  !.cache_list_ = <<f>> \o @,
                                  !.cache_map_ = @ \cup {f}],
               crashed |-> e.crashed]
              : e \in EraseMapped(r.history_list_, r.history_map_, f) }
     ELSE { [rep |-> [r1 EXCEPT !.cache_list_ =
                                   <<f>> \o (IF f \in r.cache_map_
                                               THEN RemoveFirst(@, f) ELSE @),
                                !.cache_map_ = @ \cup {f}],
             crashed |-> FALSE] }

\* SetEvictable that only ever sets the flag: set_evictable = false is ignored
SetEvictableNeverClears(r, f, set_evictable) ==
  IF r.access_count_[f] = 0 \/ ~set_evictable THEN r
  ELSE [r EXCEPT
          !.curr_size_ = IF ~r.is_evictable_map_[f] THEN @ + 1 ELSE @,
          !.is_evictable_map_[f] = TRUE]

SetEvictable(r, f, set_evictable) ==
  IF r.access_count_[f] = 0 THEN r
  ELSE [r EXCEPT
          !.curr_size_ =
             IF r.is_evictable_map_[f] /\ ~set_evictable THEN @ - 1
             ELSE IF ~r.is_evictable_map_[f] /\ set_evictable THEN @ + 1
             ELSE @,
          !.is_evictable_map_[f] = set_evictable]

\* a forward scan of a list: the evictable frame nearest to the front
FirstEvictable(r, list) ==
  LET idx == {i \in 1 .. Len(list) : r.is_evictable_map_[list[i]]}
  IN IF idx = {} THEN NoFrame
     ELSE list[CHOOSE i \in idx : \A j \in idx : i <= j]

\* the reverse scan of a list: the evictable frame nearest to the tail
LastEvictable(r, list) ==
  LET idx == {i \in 1 .. Len(list) : r.is_evictable_map_[list[i]]}
  IN IF idx = {} THEN NoFrame
     ELSE list[CHOOSE i \in idx : \A j \in idx : j <= i]

\* Evict lines 26-53: the scan of the history list, then of the cache list
EvictScan(r) ==
  LET h == LastEvictable(r, r.history_list_)
      c == LastEvictable(r, r.cache_list_)
      taken(f) == [r EXCEPT !.access_count_[f] = 0,
                            !.curr_size_ = @ - 1,
                            !.is_evictable_map_[f] = FALSE]
  IN IF h # NoFrame
       THEN { [ok |-> TRUE, frame |-> h,
               rep |-> [taken(h) EXCEPT !.history_list_ = e.list,
                                        !.history_map_ = @ \ {h}],
               crashed |-> e.crashed]
              : e \in EraseMapped(r.history_list_, r.history_map_, h) }
     ELSE IF c # NoFrame
       THEN { [ok |-> TRUE, frame |-> c,
               rep |-> [taken(c) EXCEPT !.cache_list_ = e.list,
                                        !.cache_map_ = @ \ {c}],
               crashed |-> e.crashed]
              : e \in EraseMapped(r.cache_list_, r.cache_map_, c) }
     ELSE { [ok |-> FALSE, frame |-> NoFrame, rep |-> r, crashed |-> FALSE] }

\* Evict that gives up when a single evictable frame is left (curr_size_ <= 1)
EvictOffByOne(r) ==
  IF r.curr_size_ = 0 \/ r.curr_size_ = 1
    THEN { [ok |-> FALSE, frame |-> NoFrame, rep |-> r, crashed |-> FALSE] }
    ELSE EvictScan(r)

Evict(r) ==
  IF r.curr_size_ = 0
    THEN { [ok |-> FALSE, frame |-> NoFrame, rep |-> r, crashed |-> FALSE] }
    ELSE EvictScan(r)

\* BUSTUB_ASSERT(!is_evictable_map_[frame_id]) aborts a build with assertions
\* when the frame is evictable; a build without them runs on.
Remove(r, f) ==
  LET erased ==
        IF r.access_count_[f] = 0
          THEN { [rep |-> r, crashed |-> FALSE] }
        ELSE IF r.access_count_[f] >= r.k_
          THEN { [rep |-> [r EXCEPT !.cache_list_ = e.list,
                                    !.cache_map_ = @ \ {f},
                                    !.curr_size_ = @ - 1,
                                    !.access_count_[f] = 0,
                                    !.is_evictable_map_[f] = FALSE],
                  crashed |-> e.crashed]
                 : e \in EraseMapped(r.cache_list_, r.cache_map_, f) }
        ELSE { [rep |-> [r EXCEPT !.history_list_ = e.list,
                                  !.history_map_ = @ \ {f},
                                  !.curr_size_ = @ - 1,
                                  !.access_count_[f] = 0,
                                  !.is_evictable_map_[f] = FALSE],
                crashed |-> e.crashed]
               : e \in EraseMapped(r.history_list_, r.history_map_, f) }
  IN IF r.is_evictable_map_[f]
       THEN erased \cup { [rep |-> r, crashed |-> TRUE] }
       ELSE erased

Size(r) == r.curr_size_

\* RecordAccess stays within the model's caps
CanRecord(r, f) ==
  /\ r.access_count_[f] < MaxAccess
  /\ Len(r.history_list_) < MaxList
  /\ Len(r.cache_list_) < MaxList

NoRet == [op |-> "none", page_id |-> INVALID_PAGE_ID, frame |-> NoFrame, ok |-> FALSE]
Running == proc = "running"


\* ========================================================================
\* Replacer called directly (the replacer's own interface)
\* ========================================================================
Crash ==
  /\ proc' = "crashed"
  /\ UNCHANGED <<replacer_, ret, auxVars>>

ReplacerRecordAccess(f) ==
  /\ Running
  /\ CanRecord(replacer_, f)
  /\ \E o \in RecordAccess(replacer_, f) :
       IF o.crashed THEN Crash
       ELSE /\ replacer_' = o.rep
            /\ ret' = [op |-> "RecordAccess", page_id |-> INVALID_PAGE_ID,
                       frame |-> f, ok |-> TRUE]
            /\ UNCHANGED <<proc, auxVars>>
  /\ UNCHANGED bpmVars

ReplacerSetEvictable(f, b) ==
  /\ Running
  /\ replacer_' = SetEvictable(replacer_, f, b)
  /\ ret' = [op |-> "SetEvictable", page_id |-> INVALID_PAGE_ID,
             frame |-> f, ok |-> b]
  /\ UNCHANGED <<proc, auxVars>>
  /\ UNCHANGED bpmVars

ReplacerEvict ==
  /\ Running
  /\ \E o \in Evict(replacer_) :
       IF o.crashed THEN Crash
       ELSE /\ replacer_' = o.rep
            /\ ret' = [op |-> "Evict", page_id |-> INVALID_PAGE_ID,
                       frame |-> o.frame, ok |-> o.ok]
            /\ UNCHANGED <<proc, auxVars>>
  /\ UNCHANGED bpmVars

ReplacerRemove(f) ==
  /\ Running
  /\ replacer_.curr_size_ > -MaxWrap
  /\ \E o \in Remove(replacer_, f) :
       IF o.crashed THEN Crash
       ELSE /\ replacer_' = o.rep
            /\ ret' = [op |-> "Remove", page_id |-> INVALID_PAGE_ID,
                       frame |-> f, ok |-> TRUE]
            /\ UNCHANGED <<proc, auxVars>>
  /\ UNCHANGED bpmVars

\* ========================================================================
\* DiskScheduler: Schedule and the background worker
\* ========================================================================
IdleCall == [op |-> "idle", pc |-> "idle", page_id |-> INVALID_PAGE_ID,
             frame |-> NoFrame, slot |-> 0, kind |-> "raw", todo |-> {}]
NoRequest == [is_write_ |-> FALSE, data_ |-> NoFrame, page_id_ |-> INVALID_PAGE_ID]
NoGuard == [kind |-> "none", page_ |-> NoFrame, pid |-> INVALID_PAGE_ID,
            is_dirty_ |-> FALSE, val |-> 0]
NewPageObject == [page_id |-> INVALID_PAGE_ID, pin_count |-> 0,
                  is_dirty |-> FALSE, data |-> 0]

\* Schedule(DiskRequest{is_write, data, page_id, promise}): request_queue_.Put
Schedule(queue, is_write, f, pid) ==
  Append(queue, [is_write_ |-> is_write, data_ |-> f, page_id_ |-> pid])

\* request = request_queue_.Get()
WorkerGet ==
  /\ Running
  /\ worker.pc = "get"
  /\ request_queue_ # <<>>
  /\ worker' = [pc |-> "io", request |-> Head(request_queue_)]
  /\ request_queue_' = Tail(request_queue_)
  /\ UNCHANGED <<replacer_, pages_, free_list_, page_table_, next_page_id_, call,
                 future, disk, guards, expect, ret, proc, auxVars>>

\* disk_manager_->WritePage / ReadPage through the request's data pointer
WorkerIO ==
  /\ Running
  /\ worker.pc = "io"
  /\ LET r == worker.request IN
       /\ IF r.is_write_
            THEN /\ disk' = [disk EXCEPT ![r.page_id_] = pages_[r.data_].data]
                 /\ UNCHANGED pages_
            ELSE /\ pages_' = [pages_ EXCEPT ![r.data_].data = disk[r.page_id_]]
                 /\ UNCHANGED disk
  /\ worker' = [worker EXCEPT !.pc = "signal"]
  /\ UNCHANGED <<replacer_, free_list_, page_table_, next_page_id_, call,
                 request_queue_, future, guards, expect, ret, proc, auxVars>>

\* request->callback_.set_value(true)
WorkerSignal ==
  /\ Running
  /\ worker.pc = "signal"
  /\ future' = "ready"
  /\ worker' = [pc |-> "get", request |-> NoRequest]
  /\ UNCHANGED <<replacer_, pages_, free_list_, page_table_, next_page_id_, call,
                 request_queue_, disk, guards, expect, ret, proc, auxVars>>

\* ========================================================================
\* BufferPoolManager
\* ========================================================================
Latched == call.op # "idle"
Resident(pt, pid) == pid \in PageIds /\ pt[pid] # NoFrame

\* an eviction that leaves the victim's page id in the page table
TableEraseNothing(pt, pid) == pt

\* page_table_.erase(key)
TableErase(pt, pid) == IF pid \in PageIds THEN [pt EXCEPT ![pid] = NoFrame] ELSE pt
\* page_table_.insert(make_pair(key, frame)): keeps an existing mapping
TableInsert(pt, pid, f) == IF pt[pid] = NoFrame THEN [pt EXCEPT ![pid] = f] ELSE pt

\* the handle a returning NewPage / FetchPage leaves with its caller
Handle(gs, slot, kind, f, pid) ==
  IF slot = 0 \/ f = NoFrame THEN gs
  ELSE [gs EXCEPT ![slot] = [kind |-> kind, page_ |-> f, pid |-> pid,
                             is_dirty_ |-> FALSE, val |-> 0]]

FreeSlots == {0} \cup {g \in Slots : guards[g].kind = "none"}

\* the whole process stops; what its memory held no longer matters
Abort ==
  /\ proc' = "crashed"
  /\ UNCHANGED <<replacer_, pages_, free_list_, page_table_, next_page_id_, call,
                 request_queue_, worker, future, disk, guards, expect, ret, auxVars>>

\* NewPage lines 66-78 on frame f, the replacer being rep and the page table pt
InstallNew(f, rep, pt, fl, slot) ==
  LET new_page_id == next_page_id_
      r1 == SetEvictable(rep, f, FALSE)
  IN \E o \in RecordAccess(r1, f) :
       IF o.crashed THEN Abort
       ELSE /\ next_page_id_' = next_page_id_ + 1
            /\ pages_' = [pages_ EXCEPT ![f] = [page_id |-> new_page_id, pin_count |-> 1,
                                                is_dirty |-> FALSE, data |-> 0]]
            /\ page_table_' = TableInsert(pt, new_page_id, f)
            /\ free_list_' = fl
            /\ replacer_' = o.rep
            /\ call' = IdleCall
            /\ future' = "none"
            /\ guards' = Handle(guards, slot, "new", f, new_page_id)
            /\ ret' = [op |-> "NewPage", page_id |-> new_page_id, frame |-> f, ok |-> TRUE]
            /\ UNCHANGED <<request_queue_, worker, disk, expect, proc, auxVars>>

\* NewPage up to its return or to future.get() of the victim's write-back
NewPage(slot) ==
  /\ Running /\ ~Latched
  /\ next_page_id_ < NumPages
  /\ IF free_list_ # <<>>
       THEN /\ CanRecord(replacer_, Head(free_list_))
            /\ InstallNew(Head(free_list_), replacer_, page_table_, Tail(free_list_), slot)
       ELSE \E e \in Evict(replacer_) :
              IF e.crashed THEN Abort
              ELSE IF ~e.ok
                THEN /\ ret' = [op |-> "NewPage", page_id |-> INVALID_PAGE_ID,
                                frame |-> NoFrame, ok |-> FALSE]
                     /\ UNCHANGED <<replacer_, pages_, free_list_, page_table_,
                                    next_page_id_, call, request_queue_, worker, future,
                                    disk, guards, expect, proc, auxVars>>
              ELSE /\ CanRecord(e.rep, e.frame)
                   /\ IF pages_[e.frame].is_dirty
                        THEN /\ request_queue_' = Schedule(request_queue_, TRUE, e.frame,
                                                           pages_[e.frame].page_id)
                             /\ future' = "pending"
                             /\ replacer_' = e.rep
                             /\ call' = [IdleCall EXCEPT !.op = "NewPage", !.pc = "flush",
                                                         !.frame = e.frame, !.slot = slot]
                             /\ UNCHANGED <<pages_, free_list_, page_table_, next_page_id_,
                                            worker, disk, guards, expect, ret, proc, auxVars>>
                        ELSE InstallNew(e.frame, e.rep,
                                        TableErase(page_table_, pages_[e.frame].page_id),
                                        free_list_, slot)

\* NewPage that does not wait for the write-back to complete
NewPageResumeNoWait ==
  /\ Running
  /\ call.op = "NewPage" /\ call.pc = "flush" /\ future \in {"pending", "ready"}
  /\ InstallNew(call.frame, replacer_,
                TableErase(page_table_, pages_[call.frame].page_id), free_list_, call.slot)

\* NewPage after future.get() returned: lines 59 and 66-78
NewPageResume ==
  /\ Running
  /\ call.op = "NewPage" /\ call.pc = "flush" /\ future = "ready"
  /\ InstallNew(call.frame, replacer_,
                TableErase(page_table_, pages_[call.frame].page_id), free_list_, call.slot)

\* FetchPage lines 110-124 on frame f: reset, schedule the read, install, pin
InstallFetch(f, page_id, rep, pt, fl, slot, kind) ==
  LET r1 == SetEvictable(rep, f, FALSE)
  IN \E o \in RecordAccess(r1, f) :
       IF o.crashed THEN Abort
       ELSE /\ pages_' = [pages_ EXCEPT ![f] = [page_id |-> page_id, pin_count |-> 1,
                                                is_dirty |-> FALSE, data |-> 0]]
            /\ request_queue_' = Schedule(request_queue_, FALSE, f, page_id)
            /\ future' = "pending"
            /\ page_table_' = TableInsert(pt, page_id, f)
            /\ free_list_' = fl
            /\ replacer_' = o.rep
            /\ call' = [IdleCall EXCEPT !.op = "FetchPage", !.pc = "read", !.frame = f,
                                        !.page_id = page_id, !.slot = slot, !.kind = kind]
            /\ UNCHANGED <<next_page_id_, worker, disk, guards, expect, ret, proc, auxVars>>

\* FetchPage up to its return or to its first future.get()
FetchPage(page_id, slot, kind) ==
  /\ Running /\ ~Latched
  /\ IF Resident(page_table_, page_id)
       THEN /\ ret' = [op |-> "FetchPage", page_id |-> page_id,
                       frame |-> page_table_[page_id], ok |-> TRUE]
            /\ guards' = Handle(guards, slot, kind, page_table_[page_id], page_id)
            /\ UNCHANGED <<replacer_, pages_, free_list_, page_table_, next_page_id_,
                           call, request_queue_, worker, future, disk,
                           expect, proc, auxVars>>
     ELSE IF free_list_ # <<>>
       THEN /\ CanRecord(replacer_, Head(free_list_))
            /\ InstallFetch(Head(free_list_), page_id, replacer_, page_table_,
                            Tail(free_list_), slot, kind)
     ELSE \E e \in Evict(replacer_) :
            IF e.crashed THEN Abort
            ELSE IF ~e.ok
              THEN /\ ret' = [op |-> "FetchPage", page_id |-> page_id,
                              frame |-> NoFrame, ok |-> FALSE]
                   /\ UNCHANGED <<replacer_, pages_, free_list_, page_table_,
                                  next_page_id_, call, request_queue_, worker, future,
                                  disk, guards, expect, proc, auxVars>>
            ELSE /\ CanRecord(e.rep, e.frame)
                 /\ IF pages_[e.frame].is_dirty
                      THEN /\ request_queue_' = Schedule(request_queue_, TRUE, e.frame,
                                                         pages_[e.frame].page_id)
                           /\ future' = "pending"
                           /\ replacer_' = e.rep
                           /\ call' = [IdleCall EXCEPT !.op = "FetchPage", !.pc = "flush",
                                                       !.frame = e.frame,
                                                       !.page_id = page_id,
                                                       !.slot = slot, !.kind = kind]
                           /\ UNCHANGED <<pages_, free_list_, page_table_, next_page_id_,
                                          worker, disk, guards, expect, ret, proc, auxVars>>
                      ELSE InstallFetch(e.frame, page_id, e.rep,
                                        TableErase(page_table_, pages_[e.frame].page_id),
                                        free_list_, slot, kind)

\* FetchPage after the write-back's future.get(): lines 107 and 110-124
FetchPageResume ==
  /\ Running
  /\ call.op = "FetchPage" /\ call.pc = "flush" /\ future = "ready"
  /\ InstallFetch(call.frame, call.page_id, replacer_,
                  TableErase(page_table_, pages_[call.frame].page_id), free_list_,
                  call.slot, call.kind)

\* FetchPage after read_future.get(): line 127
FetchPageReturn ==
  /\ Running
  /\ call.op = "FetchPage" /\ call.pc = "read" /\ future = "ready"
  /\ ret' = [op |-> "FetchPage", page_id |-> call.page_id, frame |-> call.frame,
             ok |-> TRUE]
  /\ guards' = Handle(guards, call.slot, call.kind, call.frame, call.page_id)
  /\ call' = IdleCall
  /\ future' = "none"
  /\ UNCHANGED <<replacer_, pages_, free_list_, page_table_, next_page_id_,
                 request_queue_, worker, disk, expect, proc, auxVars>>

\* UnpinPage without the pin_count <= 0 check
UnpinPageNoPinCheck(pt, pgs, rep, page_id, is_dirty) ==
  IF ~Resident(pt, page_id)
    THEN [ok |-> FALSE, pages |-> pgs, rep |-> rep]
  ELSE LET frame_id == pt[page_id]
           n == pgs[frame_id].pin_count - 1 IN
      [ok |-> TRUE,
       pages |-> [pgs EXCEPT ![frame_id].pin_count = n,
                             ![frame_id].is_dirty = IF is_dirty THEN TRUE ELSE @],
       rep |-> IF n <= 0 THEN SetEvictable(rep, frame_id, TRUE) ELSE rep]

\* UnpinPage as a function of the pool's state: result and new state
UnpinPage(pt, pgs, rep, page_id, is_dirty) ==
  IF ~Resident(pt, page_id)
    THEN [ok |-> FALSE, pages |-> pgs, rep |-> rep]
  ELSE LET frame_id == pt[page_id] IN
    IF pgs[frame_id].pin_count <= 0
      THEN [ok |-> FALSE, pages |-> pgs, rep |-> rep]
    ELSE LET n == pgs[frame_id].pin_count - 1 IN
      [ok |-> TRUE,
       pages |-> [pgs EXCEPT ![frame_id].pin_count = n,
                             ![frame_id].is_dirty = IF is_dirty THEN TRUE ELSE @],
       rep |-> IF n <= 0 THEN SetEvictable(rep, frame_id, TRUE) ELSE rep]

\* UnpinPage called with any arguments
UnpinPageCall(page_id, is_dirty) ==
  /\ Running /\ ~Latched
  /\ LET u == UnpinPage(page_table_, pages_, replacer_, page_id, is_dirty) IN
       /\ pages_' = u.pages
       /\ replacer_' = u.rep
       /\ ret' = [op |-> "UnpinPage", page_id |-> page_id, frame |-> NoFrame, ok |-> u.ok]
  /\ UNCHANGED <<free_list_, page_table_, next_page_id_, call, request_queue_, worker,
                 future, disk, guards, expect, proc, auxVars>>

\* FlushPage up to future.get()
FlushPage(page_id) ==
  /\ Running /\ ~Latched
  /\ IF ~Resident(page_table_, page_id)
       THEN /\ ret' = [op |-> "FlushPage", page_id |-> page_id, frame |-> NoFrame,
                       ok |-> FALSE]
            /\ UNCHANGED <<call, request_queue_, future>>
       ELSE /\ request_queue_' = Schedule(request_queue_, TRUE, page_table_[page_id],
                                          pages_[page_table_[page_id]].page_id)
            /\ future' = "pending"
            /\ call' = [IdleCall EXCEPT !.op = "FlushPage", !.pc = "flush",
                                        !.frame = page_table_[page_id],
                                        !.page_id = page_id]
            /\ UNCHANGED ret
  /\ UNCHANGED <<replacer_, pages_, free_list_, page_table_, next_page_id_, worker,
                 disk, guards, expect, proc, auxVars>>

\* FlushPage after future.get(): lines 169-170
FlushPageResume ==
  /\ Running
  /\ call.op = "FlushPage" /\ call.pc = "flush" /\ future = "ready"
  /\ pages_' = [pages_ EXCEPT ![call.frame].is_dirty = FALSE]
  /\ ret' = [op |-> "FlushPage", page_id |-> call.page_id, frame |-> NoFrame, ok |-> TRUE]
  /\ call' = IdleCall
  /\ future' = "none"
  /\ UNCHANGED <<replacer_, free_list_, page_table_, next_page_id_, request_queue_,
                 worker, disk, guards, expect, proc, auxVars>>

\* FlushAllPages: the loop body up to future.get() for the next page of the
\* table (an unordered_map: any order), or the return when none is left
FlushAllNext(todo) ==
  IF todo = {}
    THEN /\ call' = IdleCall
         /\ future' = "none"
         /\ ret' = [op |-> "FlushAllPages", page_id |-> INVALID_PAGE_ID,
                    frame |-> NoFrame, ok |-> TRUE]
         /\ UNCHANGED request_queue_
    ELSE \E p \in todo :
           /\ request_queue_' = Schedule(request_queue_, TRUE, page_table_[p],
                                         pages_[page_table_[p]].page_id)
           /\ future' = "pending"
           /\ call' = [IdleCall EXCEPT !.op = "FlushAllPages", !.pc = "flush",
                                       !.frame = page_table_[p], !.page_id = p,
                                       !.todo = todo \ {p}]
           /\ UNCHANGED ret

FlushAllPages ==
  /\ Running /\ ~Latched
  /\ FlushAllNext({p \in PageIds : Resident(page_table_, p)})
  /\ UNCHANGED <<replacer_, pages_, free_list_, page_table_, next_page_id_, worker,
                 disk, guards, expect, proc, auxVars>>

FlushAllResume ==
  /\ Running
  /\ call.op = "FlushAllPages" /\ call.pc = "flush" /\ future = "ready"
  /\ pages_' = [pages_ EXCEPT ![call.frame].is_dirty = FALSE]
  /\ FlushAllNext(call.todo)
  /\ UNCHANGED <<replacer_, free_list_, page_table_, next_page_id_, worker,
                 disk, guards, expect, proc, auxVars>>

DeletePage(page_id) ==
  /\ Running /\ ~Latched
  /\ IF ~Resident(page_table_, page_id)
       THEN /\ ret' = [op |-> "DeletePage", page_id |-> page_id, frame |-> NoFrame,
                       ok |-> TRUE]
            /\ UNCHANGED <<pages_, free_list_, page_table_>>
     ELSE IF pages_[page_table_[page_id]].pin_count > 0
       THEN /\ ret' = [op |-> "DeletePage", page_id |-> page_id, frame |-> NoFrame,
                       ok |-> FALSE]
            /\ UNCHANGED <<pages_, free_list_, page_table_>>
     ELSE /\ page_table_' = TableErase(page_table_, page_id)
          /\ free_list_' = Append(free_list_, page_table_[page_id])
          /\ pages_' = [pages_ EXCEPT ![page_table_[page_id]] = NewPageObject]
          /\ ret' = [op |-> "DeletePage", page_id |-> page_id, frame |-> NoFrame,
                     ok |-> TRUE]
  /\ UNCHANGED <<replacer_, next_page_id_, call, request_queue_, worker, future,
                 disk, guards, expect, proc, auxVars>>

\* ========================================================================
\* Clients: threads that hold a Page* or a BasicPageGuard
\* ========================================================================
\* a thread that pinned the page writes its bytes through the Page*
PageWrite(f, v) ==
  /\ Running
  /\ pages_[f].pin_count > 0
  /\ pages_[f].data # v
  /\ pages_' = [pages_ EXCEPT ![f].data = v]
  /\ UNCHANGED <<replacer_, free_list_, page_table_, next_page_id_, call,
                 request_queue_, worker, future, disk, guards, expect, ret, proc, auxVars>>

\* the holder of handle g writes v through its pointer (GetDataMut for a guard)
GuardWrite(g, v) ==
  /\ Running
  /\ guards[g].kind # "none"
  /\ pages_' = [pages_ EXCEPT ![guards[g].page_].data = v]
  /\ guards' = [guards EXCEPT ![g].is_dirty_ = TRUE, ![g].val = v]
  /\ UNCHANGED <<replacer_, free_list_, page_table_, next_page_id_, call,
                 request_queue_, worker, future, disk, expect, ret, proc, auxVars>>

\* the holder of handle g gives it up: the holder of a raw pointer (kind "new"
\* from NewPage, "raw" from FetchPage) calls UnpinPage(its page id, it wrote);
\* BasicPageGuard::Drop (kind "basic", from FetchPageBasic) calls
\* UnpinPage(page_->GetPageId(), is_dirty_)
GuardRelease(g) ==
  /\ Running /\ ~Latched
  /\ guards[g].kind # "none"
  /\ LET h == guards[g]
         id == IF h.kind = "basic" THEN pages_[h.page_].page_id ELSE h.pid
         u == UnpinPage(page_table_, pages_, replacer_, id, h.is_dirty_)
     IN /\ pages_' = u.pages
        /\ replacer_' = u.rep
        /\ ret' = [op |-> "UnpinPage", page_id |-> id, frame |-> NoFrame, ok |-> u.ok]
        /\ expect' = IF h.is_dirty_ /\ h.kind # "new"
                       THEN [expect EXCEPT ![h.pid] = h.val] ELSE expect
  /\ guards' = [guards EXCEPT ![g] = NoGuard]
  /\ UNCHANGED <<free_list_, page_table_, next_page_id_, call, request_queue_, worker,
                 future, disk, proc, auxVars>>

\* ========================================================================
\* Initial state: BufferPoolManager and LRUKReplacer constructors
\* ========================================================================
\* the pool's own members and the model's bookkeeping
InitPool ==
  /\ pages_ = [f \in Frames |-> NewPageObject]
  /\ free_list_ = [i \in 1 .. PoolSize |-> i - 1]
  /\ page_table_ = [p \in PageIds |-> NoFrame]
  /\ next_page_id_ = 0
  /\ call = IdleCall
  /\ request_queue_ = <<>>
  /\ worker = [pc |-> "get", request |-> NoRequest]
  /\ future = "none"
  /\ disk = [p \in PageIds |-> 0]
  /\ guards = [g \in Slots |-> NoGuard]
  /\ expect = [p \in PageIds |-> -1]
  /\ ret = NoRet
  /\ proc = "running"

\* no scenario caller, no observer
NoScan == [a |-> NoFrame, b |-> NoFrame, c |-> NoFrame, d |-> NoFrame,
           pc |-> "idle", n |-> 0, marked |-> {}, out |-> <<>>]
ScanIdle == scan = NoScan

\* no request was ever scheduled directly, the scheduler is never destroyed
NoRequestsLog == [scheduled |-> <<>>, issued |-> <<>>, released |-> {}, behind |-> 0]
SchedulerClients ==
  /\ callbacks = [i \in 1 .. MaxRequests |-> 0]
  /\ bufs = [i \in 1 .. MaxRequests |-> 0]
  /\ dtor = "live"
  /\ dlog = NoRequestsLog

\* guard objects and threads: none constructed, none running, no latch held
Threads == 1 .. MaxThreads
Objects == 1 .. MaxObjects
NoObject == [type |-> "none", page_ |-> NoFrame, is_dirty_ |-> FALSE,
             over |-> NoFrame, pid |-> INVALID_PAGE_ID, pinned |-> FALSE, thr |-> 0]
IdleThread == [pc |-> "idle", op |-> "none", obj |-> 0, src |-> 0,
               page_id |-> INVALID_PAGE_ID, frame |-> NoFrame, is_dirty |-> FALSE]
FreeLatch == [writer |-> 0, readers |-> [t \in Threads |-> 0]]
GuardsIdle ==
  /\ objs = [g \in Objects |-> NoObject]
  /\ thr = [t \in Threads |-> IdleThread]
  /\ rwlatch_ = [f \in Frames |-> FreeLatch]

\* no executor and no hash table under test
NoExec == [op |-> "none"]
NoTable == [pc |-> "none"]

InitAux ==
  /\ ScanIdle
  /\ SchedulerClients
  /\ GuardsIdle
  /\ exec = NoExec
  /\ ht = NoTable

\* a pool of PoolSize frames with any replacer_k
Init ==
  /\ replacer_ \in {LRUKReplacer(PoolSize, k) : k \in 1 .. MaxK}
  /\ InitPool
  /\ InitAux

\* a replacer of ReplacerFrames frames on its own
InitReplacer ==
  /\ replacer_ \in {LRUKReplacer(ReplacerFrames, k) : k \in 1 .. MaxK}
  /\ InitPool
  /\ InitAux

ReplacerFrameIds == 0 .. (ReplacerFrames - 1)

NextReplacer ==
  \/ \E f \in ReplacerFrameIds : ReplacerRecordAccess(f)
  \/ \E f \in ReplacerFrameIds, b \in BOOLEAN : ReplacerSetEvictable(f, b)
  \/ ReplacerEvict
  \/ \E f \in ReplacerFrameIds : ReplacerRemove(f)

SpecReplacer == InitReplacer /\ [][NextReplacer]_vars

\* ========================================================================
\* DiskScheduler on its own: producers, promises, the worker loop, shutdown
\* ========================================================================
\* std::optional<DiskRequest>: std::nullopt, or a request with its promise
Nullopt == [has_value |-> FALSE, is_write_ |-> FALSE, data_ |-> 0,
            page_id_ |-> INVALID_PAGE_ID, callback_ |-> 0]
DiskRequest(is_write, data, page_id, callback) ==
  [has_value |-> TRUE, is_write_ |-> is_write, data_ |-> data,
   page_id_ |-> page_id, callback_ |-> callback]

\* Channel<T>::Put: the element goes to the back of the queue
Put(queue, element) == Append(queue, element)
\* Channel<T>::Get: blocks while the queue is empty, then takes the front
CanGet(queue) == queue # <<>>
Get(queue) == [element |-> Head(queue), queue |-> Tail(queue)]

\* while ((request = request_queue_.Get())): the loop goes on for a request
LoopNeverEnds(request) == TRUE
LoopContinues(request) == request.has_value

\* the worker treats every request as a read
ServiceAsRead(r, d, b) ==
  [disk |-> d, bufs |-> [b EXCEPT ![r.data_] = d[r.page_id_]]]
\* disk_manager_->WritePage(page_id_, data_) or ReadPage(page_id_, data_)
Service(r, d, b) ==
  IF r.is_write_
    THEN [disk |-> [d EXCEPT ![r.page_id_] = b[r.data_]], bufs |-> b]
    ELSE [disk |-> d, bufs |-> [b EXCEPT ![r.data_] = d[r.page_id_]]]

\* the worker never signals
SetValueLost(c, r) == c
\* request->callback_.set_value(true)
SetValue(c, r) == [c EXCEPT ![r.callback_] = @ + 1]

\* a producer thread: builds a request over its own buffer and calls Schedule
DiskSchedule(is_write, page_id, data) ==
  /\ Running
  /\ dtor = "live"
  /\ Len(dlog.scheduled) < MaxRequests
  /\ LET id == Len(dlog.scheduled) + 1
         r == DiskRequest(is_write, id, page_id, id)
     IN /\ request_queue_' = Put(request_queue_, r)
        /\ bufs' = [bufs EXCEPT ![id] = IF is_write THEN data ELSE 0]
        /\ dlog' = [dlog EXCEPT !.scheduled = Append(@, [r EXCEPT !.data_ = bufs'[id]])]
  /\ UNCHANGED <<replacer_, pages_, free_list_, page_table_, next_page_id_, call,
                 worker, future, disk, guards, expect, ret, proc, scanVars, execVars, hashVars, guardVars, callbacks, dtor>>

\* request = request_queue_.Get(), the loop condition and "if (request)"
DiskWorkerGet ==
  /\ Running
  /\ worker.pc = "get"
  /\ CanGet(request_queue_)
  /\ LET g == Get(request_queue_) IN
       /\ request_queue_' = g.queue
       /\ worker' = [pc |-> IF ~LoopContinues(g.element) THEN "exited"
                            ELSE IF g.element.has_value THEN "io" ELSE "get",
                     request |-> g.element]
  /\ UNCHANGED <<replacer_, pages_, free_list_, page_table_, next_page_id_, call,
                 future, disk, guards, expect, ret, proc, auxVars>>

\* the synchronous disk-manager call of the current request
DiskWorkerIO ==
  /\ Running
  /\ worker.pc = "io"
  /\ LET r == worker.request
         o == Service(r, disk, bufs)
     IN /\ disk' = o.disk
        /\ bufs' = o.bufs
        /\ dlog' = [dlog EXCEPT !.issued =
                      Append(@, [r EXCEPT !.data_ = IF r.is_write_ THEN bufs[r.data_]
                                                     ELSE 0])]
  /\ worker' = [worker EXCEPT !.pc = "signal"]
  /\ UNCHANGED <<replacer_, pages_, free_list_, page_table_, next_page_id_, call,
                 request_queue_, future, guards, expect, ret, proc, scanVars, execVars, hashVars, guardVars, callbacks, dtor>>

\* the promise of the current request is set, the loop goes back to Get
DiskWorkerSignal ==
  /\ Running
  /\ worker.pc = "signal"
  /\ callbacks' = SetValue(callbacks, worker.request)
  /\ worker' = [worker EXCEPT !.pc = "get"]
  /\ UNCHANGED <<replacer_, pages_, free_list_, page_table_, next_page_id_, call,
                 request_queue_, future, disk, guards, expect, ret, proc,
                 scanVars, execVars, hashVars, guardVars, bufs, dtor, dlog>>

\* future.get() of request id returns to the producer that waited on it
FutureGet(id) ==
  /\ Running
  /\ id \in 1 .. Len(dlog.scheduled)
  /\ id \notin dlog.released
  /\ callbacks[id] > 0
  /\ dlog' = [dlog EXCEPT !.released = @ \cup {id}]
  /\ UNCHANGED <<replacer_, pages_, free_list_, page_table_, next_page_id_, call,
                 request_queue_, worker, future, disk, guards, expect, ret, proc,
                 scanVars, execVars, hashVars, guardVars, callbacks, bufs, dtor>>

\* ~DiskScheduler: request_queue_.Put(std::nullopt)
DtorPut ==
  /\ Running
  /\ dtor = "live"
  /\ request_queue_' = Put(request_queue_, Nullopt)
  /\ dtor' = "joining"
  /\ dlog' = [dlog EXCEPT !.behind = Len(request_queue_)]
  /\ UNCHANGED <<replacer_, pages_, free_list_, page_table_, next_page_id_, call,
                 worker, future, disk, guards, expect, ret, proc, scanVars, execVars, hashVars, guardVars, callbacks, bufs>>

\* ~DiskScheduler: background_thread_->join() returns once the thread has ended
DtorJoin ==
  /\ Running
  /\ dtor = "joining"
  /\ worker.pc = "exited"
  /\ dtor' = "joined"
  /\ UNCHANGED <<replacer_, pages_, free_list_, page_table_, next_page_id_, call,
                 request_queue_, worker, future, disk, guards, expect, ret, proc,
                 scanVars, execVars, hashVars, guardVars, callbacks, bufs, dlog>>

InitDisk ==
  /\ replacer_ = LRUKReplacer(PoolSize, 2)
  /\ InitPool
  /\ ScanIdle
  /\ SchedulerClients
  /\ GuardsIdle
  /\ exec = NoExec
  /\ ht = NoTable

DiskWorker == DiskWorkerGet \/ DiskWorkerIO \/ DiskWorkerSignal

NextDisk ==
  \/ \E is_write \in BOOLEAN, page_id \in PageIds, data \in Data :
       DiskSchedule(is_write, page_id, data)
  \/ DiskWorker
  \/ \E id \in 1 .. MaxRequests : FutureGet(id)
  \/ DtorPut
  \/ DtorJoin

SpecDisk == InitDisk /\ [][NextDisk]_vars

\* the thread scheduler is fair to the worker and to the destroying thread,
\* and every disk-manager call returns
SpecDiskFair ==
  /\ SpecDisk
  /\ WF_vars(DiskWorkerGet)
  /\ WF_vars(DiskWorkerIO)
  /\ WF_vars(DiskWorkerSignal)
  /\ WF_vars(DtorJoin)

\* ========================================================================
\* The scan-resistance scenario: a caller that accesses A twice, then B, C, D
\* once each, sets the four evictable (in any order) and evicts four times
\* ========================================================================
ScanFrameIds == 0 .. (ScanFrames - 1)

\* the frame of the caller's next RecordAccess
ScanNextAccess == <<scan.a, scan.a, scan.b, scan.c, scan.d>>[scan.n + 1]

ScanRecordAccess ==
  /\ Running
  /\ scan.pc = "access"
  /\ \E o \in RecordAccess(replacer_, ScanNextAccess) :
       IF o.crashed
         THEN proc' = "crashed" /\ UNCHANGED <<replacer_, ret, scan>>
         ELSE /\ replacer_' = o.rep
              /\ ret' = [op |-> "RecordAccess", page_id |-> INVALID_PAGE_ID,
                         frame |-> ScanNextAccess, ok |-> TRUE]
              /\ scan' = [scan EXCEPT !.n = @ + 1,
                                      !.pc = IF scan.n + 1 = Len(<<scan.a, scan.a, scan.b,
                                                                   scan.c, scan.d>>)
                                               THEN "mark" ELSE "access"]
              /\ UNCHANGED proc
  /\ UNCHANGED <<bpmVars, schedVars, guardVars, execVars, hashVars>>

ScanSetEvictable(f) ==
  /\ Running
  /\ scan.pc = "mark"
  /\ f \in {scan.a, scan.b, scan.c, scan.d} \ scan.marked
  /\ replacer_' = SetEvictable(replacer_, f, TRUE)
  /\ ret' = [op |-> "SetEvictable", page_id |-> INVALID_PAGE_ID, frame |-> f, ok |-> TRUE]
  /\ scan' = [scan EXCEPT !.marked = @ \cup {f},
                          !.pc = IF scan.marked \cup {f} = {scan.a, scan.b, scan.c, scan.d}
                                   THEN "evict" ELSE "mark"]
  /\ UNCHANGED proc
  /\ UNCHANGED <<bpmVars, schedVars, guardVars, execVars, hashVars>>

ScanEvict ==
  /\ Running
  /\ scan.pc = "evict"
  /\ \E o \in Evict(replacer_) :
       IF o.crashed
         THEN proc' = "crashed" /\ UNCHANGED <<replacer_, ret, scan>>
         ELSE /\ replacer_' = o.rep
              /\ ret' = [op |-> "Evict", page_id |-> INVALID_PAGE_ID,
                         frame |-> o.frame, ok |-> o.ok]
              /\ scan' = [scan EXCEPT !.out = Append(@, o.frame),
                                      !.pc = IF Len(scan.out) + 1 = Cardinality(scan.marked)
                                               THEN "done" ELSE "evict"]
              /\ UNCHANGED proc
  /\ UNCHANGED <<bpmVars, schedVars, guardVars, execVars, hashVars>>

\* a replacer with k = 2 and the caller's choice of four distinct frames
InitScan ==
  /\ replacer_ = LRUKReplacer(ScanFrames, 2)
  /\ InitPool
  /\ SchedulerClients
  /\ GuardsIdle
  /\ exec = NoExec
  /\ ht = NoTable
  /\ \E a, b, c, d \in ScanFrameIds :
       /\ Cardinality({a, b, c, d}) = Cardinality({"A", "B", "C", "D"})
       /\ scan = [NoScan EXCEPT !.a = a, !.b = b, !.c = c, !.d = d, !.pc = "access"]

NextScan ==
  \/ ScanRecordAccess
  \/ \E f \in ScanFrameIds : ScanSetEvictable(f)
  \/ ScanEvict

SpecScan == InitScan /\ [][NextScan]_vars

Worker == WorkerGet \/ WorkerIO \/ WorkerSignal

Resume ==
  \/ NewPageResume
  \/ FetchPageResume
  \/ FetchPageReturn
  \/ FlushPageResume
  \/ FlushAllResume

Allocated == 0 .. (next_page_id_ - 1)

\* the pool called with any arguments, by callers that keep no handle and
\* leave the page bytes as they are
Next ==
  \/ NewPage(0)
  \/ \E p \in Allocated : FetchPage(p, 0, "raw")
  \/ \E p \in Allocated, d \in BOOLEAN : UnpinPageCall(p, d)
  \/ \E p \in Allocated : FlushPage(p)
  \/ FlushAllPages
  \/ \E p \in Allocated : DeletePage(p)
  \/ Resume
  \/ Worker

Spec == Init /\ [][Next]_vars

\* the same callers, writing the bytes of the pages they pinned
NextData ==
  \/ NewPage(0)
  \/ \E p \in Allocated : FetchPage(p, 0, "raw")
  \/ \E p \in Allocated, d \in BOOLEAN : UnpinPageCall(p, d)
  \/ \E f \in Frames, v \in Data : PageWrite(f, v)
  \/ NewPageResume
  \/ FetchPageResume
  \/ FetchPageReturn
  \/ Worker

SpecData == Init /\ [][NextData]_vars

\* clients that unpin exactly what they fetched, once, through their handle
\* (slot 0: the caller keeps the page pinned for good)
NextClients ==
  \/ \E g \in FreeSlots : NewPage(g)
  \/ \E p \in Allocated, g \in FreeSlots \ {0}, kind \in {"raw", "basic"} :
       FetchPage(p, g, kind)
  \/ \E g \in Slots, v \in Data \ {0} : GuardWrite(g, v)
  \/ \E g \in Slots : GuardRelease(g)
  \/ NewPageResume
  \/ FetchPageResume
  \/ FetchPageReturn
  \/ Worker

SpecClients == Init /\ [][NextClients]_vars

\* ========================================================================
\* Page guards used by threads: NewPageGuarded, FetchPageBasic / Read / Write,
\* moves, upgrades, Drop and destructors, over Page::rwlatch_
\* ========================================================================
\* Page::RLatch / WLatch block until the latch can be taken in that mode
CanRLatch(f, t) == rwlatch_[f].writer = 0 /\ rwlatch_[f].readers[t] < MaxLatch
CanWLatch(f, t) == rwlatch_[f].writer = 0 /\ \A u \in Threads : rwlatch_[f].readers[u] = 0
RLatch(l, f, t) == [l EXCEPT ![f].readers[t] = @ + 1]
WLatch(l, f, t) == [l EXCEPT ![f].writer = t]
RUnlatch(l, f, t) == [l EXCEPT ![f].readers[t] = @ - 1]
WUnlatch(l, f, t) == [l EXCEPT ![f].writer = 0]
\* the page latches thread t holds
Holds(t) == {f \in Frames : rwlatch_[f].writer = t \/ rwlatch_[f].readers[t] > 0}

\* BasicPageGuard(bpm, page); over, pid, pinned remember what it was built on
BasicPageGuard(t, f, pid, pinned) ==
  [type |-> "basic", page_ |-> f, is_dirty_ |-> FALSE,
   over |-> f, pid |-> pid, pinned |-> pinned, thr |-> t]
\* ReadPageGuard(bpm, page) and WritePageGuard(bpm, page): the body is empty,
\* guard_ stays default-constructed (bpm_ and page_ null)
LatchedPageGuard(type, t, f, pid) ==
  [type |-> type, page_ |-> NoFrame, is_dirty_ |-> FALSE,
   over |-> f, pid |-> pid, pinned |-> FALSE, thr |-> t]
\* page_ = nullptr; bpm_ = nullptr; is_dirty_ = false
Nulled(o) == [NoObject EXCEPT !.type = o.type, !.thr = o.thr]

\* what follows the "if (page_ != nullptr) UnpinPage" of Drop: the rest of Drop,
\* of the destructor, or of operator=(that)
AfterDrop(os, op, this, that) ==
  LET dropped == [os EXCEPT ![this] = Nulled(@)] IN
    CASE op \in {"Drop", "DropLatched"} -> dropped
      [] op \in {"Destroy", "DestroyLatched"} -> [dropped EXCEPT ![this] = NoObject]
      [] op = "Assign" -> [dropped EXCEPT ![this] = dropped[that],
                                          ![that] = Nulled(dropped[that])]

FetchOps == {"FetchPageBasic", "FetchPageRead", "FetchPageWrite"}
NoCallPending == \A u \in Threads : thr[u].pc # "call"

\* thread t asks for latch_: it enters a BufferPoolManager function
Begin(t, op, obj, that, page_id, is_dirty) ==
  /\ Running /\ ~Latched
  /\ thr[t].pc = "idle"
  /\ NoCallPending
  /\ thr' = [thr EXCEPT ![t] = [IdleThread EXCEPT !.pc = "call", !.op = op, !.obj = obj,
                                                  !.src = that, !.page_id = page_id,
                                                  !.is_dirty = is_dirty]]
  /\ ret' = NoRet

\* BasicPageGuard g = bpm->NewPageGuarded(&page_id), up to the call of NewPage
NewPageGuarded(t, g) ==
  /\ objs[g].type = "none"
  /\ next_page_id_ < NumPages
  /\ Begin(t, "NewPageGuarded", g, 0, INVALID_PAGE_ID, FALSE)
  /\ objs' = [objs EXCEPT ![g] = [NoObject EXCEPT !.type = "pending", !.thr = t]]
  /\ UNCHANGED <<replacer_, bpmVars, proc, scanVars, execVars, hashVars, schedVars, rwlatch_>>

\* auto g = bpm->FetchPageBasic / FetchPageRead / FetchPageWrite(page_id), up
\* to the call of FetchPage
FetchPageGuarded(t, g, page_id, op) ==
  /\ objs[g].type = "none"
  /\ Begin(t, op, g, 0, page_id, FALSE)
  /\ objs' = [objs EXCEPT ![g] = [NoObject EXCEPT !.type = "pending", !.thr = t]]
  /\ UNCHANGED <<replacer_, bpmVars, proc, scanVars, execVars, hashVars, schedVars, rwlatch_>>

\* the pool function the calling thread entered, run under latch_
GuardCall ==
  /\ ret = NoRet
  /\ \E t \in Threads :
       /\ thr[t].pc = "call"
       /\ CASE thr[t].op = "NewPageGuarded" -> NewPage(0)
            [] thr[t].op \in FetchOps -> FetchPage(thr[t].page_id, 0, "raw")
            [] OTHER -> UnpinPageCall(thr[t].page_id, thr[t].is_dirty)

\* the pool function has returned to thread t: the rest of the guard function
GuardReturn(t) ==
  /\ Running /\ ~Latched
  /\ thr[t].pc = "call"
  /\ ret # NoRet
  /\ LET c == thr[t]
         idle == [thr EXCEPT ![t] = IdleThread]
         empty == [objs EXCEPT ![c.obj] = [NoObject EXCEPT !.type = "basic", !.thr = t]]
         built == [objs EXCEPT ![c.obj] =
                     BasicPageGuard(t, ret.frame, ret.page_id,
                                    ret.ok /\ pages_[ret.frame].pin_count > 0)]
     IN CASE c.op = "NewPageGuarded" ->
               \* assert(new_page != nullptr); return {this, new_page}
               IF ret.ok
                 THEN objs' = built /\ thr' = idle /\ UNCHANGED <<rwlatch_, proc>>
                 ELSE \/ proc' = "crashed" /\ UNCHANGED guardVars
                      \/ objs' = empty /\ thr' = idle /\ UNCHANGED <<rwlatch_, proc>>
          [] c.op = "FetchPageBasic" ->
               /\ objs' = IF ret.ok THEN built ELSE empty
               /\ thr' = idle
               /\ UNCHANGED <<rwlatch_, proc>>
          [] c.op \in {"FetchPageRead", "FetchPageWrite"} ->
               \* page->RLatch() / page->WLatch(), through nullptr when FetchPage failed
               IF ret.ok
                 THEN /\ thr' = [thr EXCEPT ![t].pc = "latch", ![t].frame = ret.frame]
                      /\ UNCHANGED <<objs, rwlatch_, proc>>
                 ELSE proc' = "crashed" /\ UNCHANGED guardVars
          [] c.op \in {"Drop", "Destroy", "Assign"} ->
               /\ objs' = AfterDrop(objs, c.op, c.obj, c.src)
               /\ thr' = idle
               /\ UNCHANGED <<rwlatch_, proc>>
          [] OTHER ->
               \* ReadPageGuard::Drop / WritePageGuard::Drop after UnpinPage: the unlatch
               /\ rwlatch_' = IF objs[c.obj].type = "read"
                                THEN RUnlatch(rwlatch_, objs[c.obj].page_, t)
                                ELSE WUnlatch(rwlatch_, objs[c.obj].page_, t)
               /\ objs' = AfterDrop(objs, c.op, c.obj, c.src)
               /\ thr' = idle
               /\ UNCHANGED proc
  /\ UNCHANGED <<replacer_, bpmVars, ret, scanVars, execVars, hashVars, schedVars>>

\* FetchPageRead / FetchPageWrite: the latch is granted, the guard is built
GuardLatch(t) ==
  /\ Running
  /\ thr[t].pc = "latch"
  /\ LET c == thr[t] IN
       /\ IF c.op = "FetchPageRead"
            THEN CanRLatch(c.frame, t) /\ rwlatch_' = RLatch(rwlatch_, c.frame, t)
            ELSE CanWLatch(c.frame, t) /\ rwlatch_' = WLatch(rwlatch_, c.frame, t)
       /\ objs' = [objs EXCEPT ![c.obj] =
                     LatchedPageGuard(IF c.op = "FetchPageRead" THEN "read" ELSE "write",
                                      t, c.frame, c.page_id)]
  /\ thr' = [thr EXCEPT ![t] = IdleThread]
  /\ UNCHANGED <<replacer_, bpmVars, ret, proc, scanVars, execVars, hashVars, schedVars>>

\* auto h = g.UpgradeRead() / g.UpgradeWrite()
Upgrade(t, g, h, type) ==
  /\ Running
  /\ thr[t].pc = "idle"
  /\ objs[g].type = "basic" /\ objs[g].thr = t
  /\ objs[h].type = "none"
  /\ IF objs[g].page_ = NoFrame
       THEN proc' = "crashed" /\ UNCHANGED guardVars
       ELSE /\ IF type = "read"
                 THEN /\ CanRLatch(objs[g].page_, t)
                      /\ rwlatch_' = RLatch(rwlatch_, objs[g].page_, t)
                 ELSE /\ CanWLatch(objs[g].page_, t)
                      /\ rwlatch_' = WLatch(rwlatch_, objs[g].page_, t)
            /\ objs' = [objs EXCEPT
                          ![h] = LatchedPageGuard(type, t, objs[g].page_,
                                                  pages_[objs[g].page_].page_id),
                          ![g] = Nulled(objs[g])]
            /\ UNCHANGED <<thr, proc>>
  /\ UNCHANGED <<replacer_, bpmVars, ret, scanVars, execVars, hashVars, schedVars>>

\* BasicPageGuard h(std::move(g))
BasicMove(t, g, h) ==
  /\ Running
  /\ thr[t].pc = "idle"
  /\ objs[g].type = "basic" /\ objs[g].thr = t
  /\ objs[h].type = "none"
  /\ objs' = [objs EXCEPT ![h] = objs[g], ![g] = Nulled(objs[g])]
  /\ UNCHANGED <<replacer_, bpmVars, ret, proc, scanVars, execVars, hashVars, schedVars, thr, rwlatch_>>

\* g.GetDataMut() / g.AsMut<T>(): the holder is about to write the page
GetDataMut(t, g) ==
  /\ Running
  /\ thr[t].pc = "idle"
  /\ objs[g].type = "basic" /\ objs[g].thr = t
  /\ objs[g].page_ # NoFrame
  /\ ~objs[g].is_dirty_
  /\ objs' = [objs EXCEPT ![g].is_dirty_ = TRUE]
  /\ UNCHANGED <<replacer_, bpmVars, ret, proc, scanVars, execVars, hashVars, schedVars, thr, rwlatch_>>

\* g.Drop(), g.~BasicPageGuard(), g = std::move(that): up to the call of UnpinPage
BasicRelease(t, op, g, that) ==
  /\ Running
  /\ thr[t].pc = "idle"
  /\ objs[g].type = "basic" /\ objs[g].thr = t
  /\ op = "Assign" => (objs[that].type = "basic" /\ objs[that].thr = t)
  /\ op # "Assign" => that = g
  /\ IF objs[g].page_ # NoFrame
       THEN /\ Begin(t, op, g, that, pages_[objs[g].page_].page_id, objs[g].is_dirty_)
            /\ UNCHANGED objs
       ELSE /\ objs' = AfterDrop(objs, op, g, that)
            /\ UNCHANGED <<thr, ret>>
  /\ UNCHANGED <<replacer_, bpmVars, proc, scanVars, execVars, hashVars, schedVars, rwlatch_>>

\* g.Drop() and the destructor of a ReadPageGuard / WritePageGuard
LatchedRelease(t, op, g) ==
  /\ Running
  /\ thr[t].pc = "idle"
  /\ objs[g].type \in {"read", "write"} /\ objs[g].thr = t
  /\ IF objs[g].page_ # NoFrame
       THEN /\ Begin(t, IF op = "Drop" THEN "DropLatched" ELSE "DestroyLatched", g, g,
                     pages_[objs[g].page_].page_id, objs[g].is_dirty_)
            /\ UNCHANGED objs
       ELSE /\ objs' = AfterDrop(objs, op, g, g)
            /\ UNCHANGED <<thr, ret>>
  /\ UNCHANGED <<replacer_, bpmVars, proc, scanVars, execVars, hashVars, schedVars, rwlatch_>>

\* where the next guard object is constructed: object identities carry no meaning
FreeObject ==
  LET free == {g \in Objects : objs[g].type = "none"} IN
    IF free = {} THEN {} ELSE {CHOOSE g \in free : \A h \in free : g <= h}

InitGuards ==
  /\ replacer_ = LRUKReplacer(PoolSize, 2)
  /\ InitPool
  /\ InitAux

\* threads that use basic guards only
NextGuards ==
  \/ \E t \in Threads, g \in FreeObject : NewPageGuarded(t, g)
  \/ \E t \in Threads, g \in FreeObject, p \in Allocated :
       FetchPageGuarded(t, g, p, "FetchPageBasic")
  \/ GuardCall
  \/ NewPageResume
  \/ FetchPageResume
  \/ FetchPageReturn
  \/ Worker
  \/ \E t \in Threads : GuardReturn(t)
  \/ \E t \in Threads, g \in Objects : GetDataMut(t, g)
  \/ \E t \in Threads, g \in Objects, h \in FreeObject : BasicMove(t, g, h)
  \/ \E t \in Threads, op \in {"Drop", "Destroy", "Assign"}, g, that \in Objects :
       BasicRelease(t, op, g, that)

SpecGuards == InitGuards /\ [][NextGuards]_vars

\* threads that latch pages through read and write guards; none of them writes
\* a page, so no frame is dirty and no call waits for a write-back
NextLatched ==
  \/ \E t \in Threads, g \in FreeObject : NewPageGuarded(t, g)
  \/ \E t \in Threads, g \in FreeObject, p \in Allocated,
         op \in {"FetchPageRead", "FetchPageWrite"} : FetchPageGuarded(t, g, p, op)
  \/ GuardCall
  \/ FetchPageReturn
  \/ Worker
  \/ \E t \in Threads : GuardReturn(t)
  \/ \E t \in Threads : GuardLatch(t)
  \/ \E t \in Threads, g \in Objects, h \in FreeObject, type \in {"read", "write"} :
       Upgrade(t, g, h, type)
  \/ \E t \in Threads, op \in {"Drop", "Destroy"}, g \in Objects :
       BasicRelease(t, op, g, g)
  \/ \E t \in Threads, op \in {"Drop", "Destroy"}, g \in Objects : LatchedRelease(t, op, g)

SpecLatched == InitGuards /\ [][NextLatched]_vars

\* ========================================================================
\* Properties
\* ========================================================================
Evictable(f) == replacer_.is_evictable_map_[f]

\* C1: a frame whose page has pin_count > 0 is marked non-evictable in the
\* replacer, and every frame an Evict call on the current replacer state
\* would hand to NewPage / FetchPage has pin_count 0.
C1_PinnedNotEvictable ==
  /\ \A f \in Frames : pages_[f].pin_count > 0 => ~Evictable(f)
  /\ \A e \in Evict(replacer_) : e.ok => pages_[e.frame].pin_count = 0

\* C1 witness: the pool is full, NewPage has just installed a page that is
\* pinned, and the replacer holds another frame it can evict.
C1_Witness ==
  /\ ret.op = "NewPage" /\ ret.ok
  /\ free_list_ = <<>>
  /\ pages_[ret.frame].pin_count > 0
  /\ \E e \in Evict(replacer_) : e.ok /\ e.frame # ret.frame

\* C2 (as claimed, for a replacer with k >= 2, where no call the pool makes is
\* undefined): every FetchPage that returns a frame increments the page's
\* pin_count by one, also when the page is already resident.
C2_FetchIncrementsPin ==
  [][ \A p \in PageIds :
        (replacer_.k_ > 1 /\ FetchPage(p, 0, "raw") /\ Resident(page_table_, p))
          => pages_'[page_table_[p]].pin_count = pages_[page_table_[p]].pin_count + 1
    ]_vars

\* C3 (as claimed, for a replacer with k >= 2): while a basic guard on page p
\* is alive, p stays resident in the frame the guard points to.
C3_GuardKeepsPageResident ==
  \A g \in Slots :
    (replacer_.k_ > 1 /\ guards[g].kind = "basic")
      => /\ page_table_[guards[g].pid] = guards[g].page_
         /\ pages_[guards[g].page_].page_id = guards[g].pid

\* C4: pin_count is never negative, and UnpinPage on a page that is not
\* resident or whose pin_count is 0 returns false and changes no pin count,
\* dirty flag or evictable flag.
C4_UnpinRejects ==
  /\ \A f \in Frames : pages_[f].pin_count >= 0
  /\ \A p \in PageIds, d \in BOOLEAN :
       (~Resident(page_table_, p) \/ pages_[page_table_[p]].pin_count = 0)
         => LET u == UnpinPage(page_table_, pages_, replacer_, p, d)
            IN ~u.ok /\ u.pages = pages_ /\ u.rep = replacer_

\* C4 witness: UnpinPage has just returned false for a resident page whose
\* pin_count is 0.
C4_Witness ==
  /\ ret.op = "UnpinPage" /\ ~ret.ok
  /\ Resident(page_table_, ret.page_id)
  /\ pages_[page_table_[ret.page_id]].pin_count = 0

InFreeList(f) == Count(free_list_, f)
Mapped(f) == \E p \in PageIds : page_table_[p] = f

\* C5: the page table is injective, every mapped frame stores the page id it
\* is mapped from, and every frame is either free (on the free list exactly
\* once, unmapped) or resident (mapped, not on the free list).
C5_PageTableConsistent ==
  /\ \A p, q \in PageIds :
       (p # q /\ page_table_[p] # NoFrame) => page_table_[p] # page_table_[q]
  /\ \A p \in PageIds :
       page_table_[p] # NoFrame => pages_[page_table_[p]].page_id = p
  /\ \A f \in Frames :
       \/ InFreeList(f) = 1 /\ ~Mapped(f)
       \/ InFreeList(f) = 0 /\ Mapped(f)

\* C5 witness: DeletePage has just put a used frame back on the free list
\* while another page is resident and an eviction has taken place before.
C5_Witness ==
  /\ ret.op = "DeletePage" /\ ret.ok
  /\ free_list_ # <<>>
  /\ \E p \in PageIds : Resident(page_table_, p)
  /\ \E p \in PageIds : p < next_page_id_ /\ ~Resident(page_table_, p) /\ p # ret.page_id

\* C6: when NewPage or FetchPage gives a frame that holds a dirty page to
\* another page, the write-back of the old page from that frame has been
\* scheduled, performed and its completion observed: the call was waiting on
\* that frame's write-back, its future is ready, no request is pending and the
\* disk holds the old content under the old page id. The read into the frame is
\* scheduled by that same step, not earlier.
C6_WriteBackBeforeReuse ==
  [][ \A f \in Frames :
        ( /\ pages_[f].is_dirty
          /\ pages_[f].page_id # INVALID_PAGE_ID
          /\ pages_'[f].page_id \notin {pages_[f].page_id, INVALID_PAGE_ID} )
        => /\ call.op \in {"NewPage", "FetchPage"} /\ call.pc = "flush"
           /\ call.frame = f
           /\ future = "ready"
           /\ request_queue_ = <<>> /\ worker.pc = "get"
           /\ disk[pages_[f].page_id] = pages_[f].data
    ]_vars

\* C6 witness: a call waits on the write-back of a dirty victim with modified
\* bytes, and the write-back has completed.
C6_Witness ==
  /\ call.op \in {"NewPage", "FetchPage"} /\ call.pc = "flush"
  /\ future = "ready"
  /\ pages_[call.frame].is_dirty
  /\ pages_[call.frame].data # 0
  /\ disk[pages_[call.frame].page_id] = pages_[call.frame].data

\* C7 (as claimed, for a replacer with k >= 2): once a caller fetched p,
\* modified its bytes and called UnpinPage(p, true), every later FetchPage(p)
\* returns the modified bytes.
C7_RoundTrip ==
  [][ ( /\ replacer_.k_ > 1
        /\ ret' # ret
        /\ ret'.op = "FetchPage" /\ ret'.ok
        /\ expect[ret'.page_id] # -1 )
      => pages_'[ret'.frame].data = expect[ret'.page_id]
    ]_vars

NoFrameAvailable ==
  /\ free_list_ = <<>>
  /\ \A f \in Frames : ~Evictable(f)

ReturnedNone(op, page_id) ==
  /\ ret' = [op |-> op, page_id |-> page_id, frame |-> NoFrame, ok |-> FALSE]
  /\ UNCHANGED <<replacer_, pages_, free_list_, page_table_, next_page_id_,
                 call, request_queue_, worker, future, disk, guards, expect, proc, auxVars>>

\* C8: NewPage and FetchPage of a non-resident page return none exactly when
\* the free list is empty and the replacer holds no evictable frame, and then
\* they change nothing.
C8_NoneIffExhausted ==
  [][ /\ NewPage(0) =>
           (NoFrameAvailable <=> ReturnedNone("NewPage", INVALID_PAGE_ID))
      /\ \A p \in PageIds :
           (FetchPage(p, 0, "raw") /\ ~Resident(page_table_, p)) =>
             (NoFrameAvailable <=> ReturnedNone("FetchPage", p))
    ]_vars

\* C8 witness: FetchPage of a non-resident page has just returned none, the
\* free list being empty and every frame pinned.
C8_Witness ==
  /\ ret.op = "FetchPage" /\ ~ret.ok
  /\ ~Resident(page_table_, ret.page_id)
  /\ NoFrameAvailable
  /\ \A f \in Frames : pages_[f].pin_count > 0

\* C9 (as claimed): a frame with access count c is exactly once in the
\* history list iff 0 < c < k, exactly once in the cache list iff c >= k, and
\* in neither iff c = 0.
C9_Classification ==
  \A f \in DOMAIN replacer_.access_count_ :
    LET c == replacer_.access_count_[f] IN
      /\ Count(replacer_.history_list_, f) = (IF 0 < c /\ c < replacer_.k_ THEN 1 ELSE 0)
      /\ Count(replacer_.cache_list_, f) = (IF c >= replacer_.k_ THEN 1 ELSE 0)

\* C10 (as claimed): if some evictable frame has access count < k, Evict
\* never returns a frame whose access count is >= k.
C10_EvictionPriority ==
  [][ ( /\ ret'.op = "Evict" /\ ret'.ok
        /\ replacer_' # replacer_
        /\ \E g \in DOMAIN replacer_.access_count_ :
             replacer_.is_evictable_map_[g] /\ replacer_.access_count_[g] < replacer_.k_ )
      => replacer_.access_count_[ret'.frame] < replacer_.k_
    ]_vars

\* C11 (as claimed): in the scan-resistance scenario with k = 2 the four evict
\* calls return D, then C, then B, then A.
C11_ScanOrderClaimed ==
  scan.pc = "done" => scan.out = <<scan.d, scan.c, scan.b, scan.a>>

\* C11 (amended): in the scan-resistance scenario with k = 2 the evict calls
\* return B, then C, then D, then A: the frames with fewer than k accesses
\* leave in the order of their first access, before the frame with k accesses.
C11_ScanOrder ==
  scan.pc \in {"evict", "done"} =>
    scan.out = SubSeq(<<scan.b, scan.c, scan.d, scan.a>>, 1, Len(scan.out))

\* C11 witness: the scenario has run to its end with four successful evictions.
C11_Witness ==
  /\ scan.pc = "done"
  /\ Len(scan.out) = Cardinality({scan.a, scan.b, scan.c, scan.d})
  /\ NoFrame \notin {scan.out[i] : i \in 1 .. Len(scan.out)}

\* C12 (as claimed, for a replacer with k >= 2): Size() is the number of
\* frames whose evictable flag is set, and is never below zero.
C12_SizeCountsEvictable ==
  replacer_.k_ > 1 =>
    /\ Size(replacer_) = Cardinality({f \in DOMAIN replacer_.is_evictable_map_ :
                                        replacer_.is_evictable_map_[f]})
    /\ Size(replacer_) >= 0

\* C13 (as claimed, for a replacer with k >= 2): Remove of a tracked frame
\* that is not evictable is rejected and alters neither the lists nor Size().
C13_RemoveRejectsNonEvictable ==
  [][ \A f \in DOMAIN replacer_.access_count_ :
        ( /\ replacer_.k_ > 1
          /\ replacer_.access_count_[f] > 0
          /\ ~replacer_.is_evictable_map_[f]
          /\ ReplacerRemove(f) )
        => /\ replacer_'.history_list_ = replacer_.history_list_
           /\ replacer_'.cache_list_ = replacer_.cache_list_
           /\ Size(replacer_') = Size(replacer_)
    ]_vars

\* the content the disk manager was last told to write to page p; the content
\* the disk was created with when it was told none
RECURSIVE LastWritten(_, _)
LastWritten(calls, p) ==
  IF calls = <<>> THEN 0
  ELSE LET r == calls[Len(calls)] IN
         IF r.is_write_ /\ r.page_id_ = p THEN r.data_
         ELSE LastWritten(SubSeq(calls, 1, Len(calls) - 1), p)

\* the requests that are in the queue (the sentinel is not one)
Queued == SelectSeq(request_queue_, LAMBDA r : r.has_value)
\* the worker has taken request id and has not yet signalled it
InService(id) == worker.pc \in {"io", "signal"} /\ worker.request.callback_ = id

\* C14: the worker calls the disk manager in the order of the Schedule calls:
\* the calls made are a prefix of the requests enqueued, none skipped or merged,
\* and each page on disk holds the content of the latest write issued to it.
C14_EnqueueOrder ==
  LET n == Len(dlog.issued) IN
    /\ n <= Len(dlog.scheduled)
    /\ dlog.issued = SubSeq(dlog.scheduled, 1, n)
    /\ Len(dlog.scheduled) =
         n + Len(Queued) + (IF worker.pc = "io" THEN 1 ELSE 0)
    /\ \A p \in PageIds : disk[p] = LastWritten(dlog.issued, p)

\* C14 witness: two writes of different content to one page, with another
\* request enqueued between them, were all issued, and the page holds the later
\* content.
C14_Witness ==
  \E i, j \in 1 .. Len(dlog.issued) :
    /\ j = i + 2
    /\ dlog.issued[i].is_write_ /\ dlog.issued[j].is_write_
    /\ dlog.issued[i].page_id_ = dlog.issued[j].page_id_
    /\ dlog.issued[i].data_ # dlog.issued[j].data_
    /\ j = Len(dlog.issued)
    /\ disk[dlog.issued[j].page_id_] = dlog.issued[j].data_

\* C15: a promise is set at most once, only after the disk-manager call of its
\* request was made, a future returns only for a request whose call was made,
\* and a request the worker has finished with has its promise set.
C15_SignalOnceAfterIO ==
  \A id \in 1 .. MaxRequests :
    LET done == \E j \in 1 .. Len(dlog.issued) : dlog.issued[j].callback_ = id IN
      /\ callbacks[id] <= 1
      /\ callbacks[id] > 0 => done
      /\ id \in dlog.released => done
      /\ ( /\ id <= Len(dlog.scheduled)
           /\ ~InService(id)
           /\ \A k \in 1 .. Len(Queued) : Queued[k].callback_ # id )
         => callbacks[id] = 1

\* C15 witness: a producer was released by its future after the call for its
\* request, while a later request is still being served.
C15_Witness ==
  \E id \in dlog.released :
    /\ callbacks[id] = 1
    /\ \E other \in 1 .. Len(dlog.scheduled) : other # id /\ InService(other)

\* C16: once the destructor has enqueued the sentinel, the join returns; when
\* it has returned, every request scheduled before was performed and signalled.
C16_ShutdownDrains ==
  /\ [](dtor = "joined" =>
          /\ worker.pc = "exited"
          /\ dlog.issued = dlog.scheduled
          /\ \A id \in 1 .. Len(dlog.scheduled) : callbacks[id] = 1)
  /\ (dtor = "joining") ~> (dtor = "joined")

\* C16 witness: the join has returned after a shutdown that found requests
\* still waiting in the queue in front of the sentinel.
C16_Witness ==
  /\ dtor = "joined"
  /\ dlog.behind > 1
  /\ \A id \in 1 .. Len(dlog.scheduled) : callbacks[id] = 1

\* C17 (as claimed): when Drop, the destructor or a move-assignment makes a
\* basic guard that was created over a pinned page give up its page, the
\* UnpinPage call it makes is for the page the guard was created over.
C17_DropUnpinsItsPage ==
  [][ \A t \in Threads :
        ( /\ thr[t].pc = "idle" /\ thr'[t].pc = "call"
          /\ thr'[t].op \in {"Drop", "Destroy", "Assign"}
          /\ objs[thr'[t].obj].pinned )
        => thr'[t].page_id = objs[thr'[t].obj].pid
    ]_vars

\* C18 (as claimed): when Drop or the destructor of a read or write guard that
\* was built over a latched page has run, the thread no longer holds the latch
\* it took for that guard.
C18_DropReleasesLatch ==
  [][ \A g \in Objects :
        ( /\ objs[g].type \in {"read", "write"}
          /\ objs[g].over # NoFrame
          /\ objs'[g].over = NoFrame )
        => LET f == objs[g].over
               t == objs[g].thr
           IN IF objs[g].type = "read"
                THEN rwlatch_'[f].readers[t] = rwlatch_[f].readers[t] - 1
                ELSE rwlatch_[f].writer = t /\ rwlatch_'[f].writer = 0
    ]_vars

\* C19 (as claimed): a read or write guard returned by FetchPageRead,
\* FetchPageWrite, UpgradeRead or UpgradeWrite owns the page whose latch was
\* taken for it.
C19_LatchedGuardOwnsPage ==
  \A g \in Objects :
    (objs[g].type \in {"read", "write"} /\ objs[g].over # NoFrame)
      => objs[g].page_ = objs[g].over

\* C20 (as claimed): a thread that enters a BufferPoolManager function, and so
\* requests latch_, holds no page latch.
C20_NoPoolCallUnderPageLatch ==
  [][ \A t \in Threads :
        (thr[t].pc = "idle" /\ thr'[t].pc = "call") => Holds(t) = {}
    ]_vars

\* C29 (as claimed, for a replacer with k >= 2): Evict returns the evictable
\* frame nearest to the tail of the history list, or of the cache list when
\* the history list has none; afterwards the victim has access count 0, is in
\* neither list and is not evictable, and Size() is one less; with no
\* evictable frame Evict returns false and changes nothing.
C29_EvictTakesTail ==
  [][ ( replacer_.k_ > 1 /\ ReplacerEvict /\ proc' = "running" )
      => LET h == LastEvictable(replacer_, replacer_.history_list_)
             c == LastEvictable(replacer_, replacer_.cache_list_)
             v == IF h # NoFrame THEN h ELSE c
         IN IF v = NoFrame
              THEN ~ret'.ok /\ replacer_' = replacer_
              ELSE /\ ret'.ok /\ ret'.frame = v
                   /\ replacer_'.access_count_[v] = 0
                   /\ Count(replacer_'.history_list_, v) = 0
                   /\ Count(replacer_'.cache_list_, v) = 0
                   /\ ~replacer_'.is_evictable_map_[v]
                   /\ Size(replacer_') = Size(replacer_) - 1
    ]_vars

\* ========================================================================
\* Query executors. Every executor follows the protocol Init(), then Next()
\* until it returns false; one action is one call.

MaxRows == 3
MaxValue == 2

\* an executor's actions leave the buffer pool, its clients and the table alone
execOthers == <<replacer_, bpmVars, ret, proc, scanVars, schedVars, guardVars, hashVars>>

\* a child executor over the rows it will yield. A SeqScanExecutor creates
\* table_iter_ in Init(); a child of another kind has its cursor from construction
ChildKinds == {"SeqScan", "Values"}
ChildExecutor(kind, rows) ==
  [kind |-> kind, rows |-> rows, cursor |-> 0, table_iter_ |-> kind # "SeqScan"]
ChildInit(c) == [c EXCEPT !.cursor = 0, !.table_iter_ = TRUE]
\* Next() dereferences table_iter_: a null pointer when Init() never ran
ChildNextDefined(c) == c.table_iter_
ChildHasNext(c) == c.cursor < Len(c.rows)
ChildNext(c) == [c EXCEPT !.cursor = @ + 1]

\* ---- Insert, Update, Delete
InvalidRid == <<"RID()", 0>>
\* the RID the child's Next() stores through rid: a scan stores the row's RID,
\* a child without a table leaves the caller's value
ChildRid(c, i, rid) == IF c.kind = "SeqScan" THEN <<"child", i>> ELSE rid
\* the plan's target expression of an UPDATE
TargetExpression(val) == (val % MaxValue) + 1

DmlOps == {"Insert", "Update", "Delete"}
\* a child row and whether the table heap accepts the operation on it
DmlRows == [val : 1 .. MaxValue, ok : BOOLEAN]
EmitCount(e, affected_row) ==
  [e EXCEPT !.child.cursor = Len(e.child.rows), !.out = Append(@, affected_row),
            !.has_called_ = TRUE, !.pc = "emitted"]

\* the loop of InsertExecutor::Next from child row i on
RECURSIVE InsertLoop(_, _, _)
InsertLoop(e, i, affected_row) ==
  IF i > Len(e.child.rows) THEN EmitCount(e, affected_row)
  ELSE LET row == e.child.rows[i]
           insert_result == <<"heap", Len(e.heap) + 1>>
           child_rid == ChildRid(e.child, i, InvalidRid)
           rid == IF child_rid = InvalidRid /\ row.ok THEN insert_result ELSE child_rid
           heap == IF row.ok
                     THEN Append(e.heap, [op |-> "InsertTuple", val |-> row.val,
                                          rid |-> insert_result])
                     ELSE e.heap
           index == Append(e.index, [op |-> "InsertEntry", key |-> row.val, rid |-> rid])
       IN InsertLoop([e EXCEPT !.heap = heap, !.index = index], i + 1, affected_row + 1)

\* the loop of UpdateExecutor::Next; rid keeps its value across iterations
RECURSIVE UpdateLoop(_, _, _, _)
UpdateLoop(e, i, affected_row, rid0) ==
  IF i > Len(e.child.rows) THEN EmitCount(e, affected_row)
  ELSE LET row == e.child.rows[i]
           rid == ChildRid(e.child, i, rid0)
           new_val == TargetExpression(row.val)
       IN IF ~row.ok
            THEN UpdateLoop(e, i + 1, affected_row, rid)
            ELSE UpdateLoop(
                   [e EXCEPT !.heap = Append(@, [op |-> "UpdateTupleInPlace",
                                                 val |-> new_val, rid |-> rid]),
                             !.index = @ \o <<[op |-> "DeleteEntry", key |-> row.val,
                                               rid |-> rid],
                                              [op |-> "InsertEntry", key |-> new_val,
                                               rid |-> rid]>>],
                   i + 1, affected_row + 1, rid)

\* the loop of DeleteExecutor::Next; UpdateTupleMeta returns nothing
RECURSIVE DeleteLoop(_, _, _, _)
DeleteLoop(e, i, affected_row, rid0) ==
  IF i > Len(e.child.rows) THEN EmitCount(e, affected_row)
  ELSE LET row == e.child.rows[i]
           emit_rid == ChildRid(e.child, i, rid0)
       IN DeleteLoop(
            [e EXCEPT !.heap = Append(@, [op |-> "UpdateTupleMeta", val |-> row.val,
                                          rid |-> emit_rid]),
                      !.index = Append(@, [op |-> "DeleteEntry", key |-> row.val,
                                           rid |-> emit_rid])],
            i + 1, affected_row + 1, emit_rid)

\* Init(): the child is initialised, has_called_ is cleared
DmlInit ==
  /\ exec.op \in DmlOps
  /\ exec.pc = "made"
  /\ exec' = [exec EXCEPT !.child = ChildInit(@), !.has_called_ = FALSE, !.pc = "inited"]
  /\ UNCHANGED execOthers

\* Next(): the first call drains the child and emits the count, later calls
\* return false
DmlNext ==
  /\ exec.op \in DmlOps
  /\ exec.pc \in {"inited", "emitted"}
  /\ exec' = IF exec.has_called_ THEN [exec EXCEPT !.pc = "end"]
             ELSE CASE exec.op = "Insert" -> InsertLoop(exec, 1, 0)
                    [] exec.op = "Update" -> UpdateLoop(exec, 1, 0, InvalidRid)
                    [] exec.op = "Delete" -> DeleteLoop(exec, 1, 0, InvalidRid)
  /\ UNCHANGED execOthers

\* any of the three executors over any child; a delete mark cannot fail
InitDml ==
  /\ replacer_ = LRUKReplacer(PoolSize, 2)
  /\ InitPool
  /\ ScanIdle
  /\ SchedulerClients
  /\ GuardsIdle
  /\ ht = NoTable
  /\ \E op \in DmlOps, kind \in ChildKinds, n \in 0 .. MaxRows :
       \E rows \in [1 .. n -> DmlRows] :
         /\ op = "Delete" => \A i \in 1 .. n : rows[i].ok
         /\ exec = [op |-> op, pc |-> "made", child |-> ChildExecutor(kind, rows),
                    has_called_ |-> FALSE, out |-> <<>>, heap |-> <<>>, index |-> <<>>]

NextDml == DmlInit \/ DmlNext

SpecDml == InitDml /\ [][NextDml]_vars

\* C25 (as claimed): the integer emitted by the first Next of an Insert, Update
\* or Delete executor is the number of child tuples whose heap operation
\* succeeded; a tuple whose heap operation failed is not counted.
C25_CountIsSuccesses ==
  (exec.op \in DmlOps /\ exec.pc \in {"emitted", "end"})
    => exec.out = <<Len(exec.heap)>>

\* ---- Sort and TopN
MaxOrderBys == 2
Columns == 1 .. 2
OrderTuples == [Columns -> 1 .. MaxValue]
OrderBys == UNION {[1 .. n -> [type : {"ASC", "DESC"}, col : Columns]] : n \in 0 .. MaxOrderBys}

\* the comparison lambda of SortExecutor::Init from order key i on: a sorts before b
RECURSIVE SortCmp(_, _, _, _)
SortCmp(order_bys, i, a, b) ==
  IF i > Len(order_bys) THEN FALSE
  ELSE LET c == order_bys[i].col
       IN IF order_bys[i].type = "ASC"
            THEN IF a[c] < b[c] THEN TRUE
                 ELSE IF a[c] > b[c] THEN FALSE ELSE SortCmp(order_bys, i + 1, a, b)
            ELSE IF a[c] < b[c] THEN FALSE
                 ELSE IF a[c] > b[c] THEN TRUE ELSE SortCmp(order_bys, i + 1, a, b)

\* the comparison lambda of TopNExecutor::Init from order key i on
RECURSIVE TopNCmp(_, _, _, _)
TopNCmp(order_bys, i, a, b) ==
  IF i > Len(order_bys) THEN FALSE
  ELSE LET c == order_bys[i].col
       IN IF order_bys[i].type = "ASC"
            THEN IF a[c] < b[c] THEN TRUE
                 ELSE IF a[c] > b[c] THEN FALSE ELSE TopNCmp(order_bys, i + 1, a, b)
            ELSE IF a[c] > b[c] THEN TRUE
                 ELSE IF a[c] < b[c] THEN FALSE ELSE TopNCmp(order_bys, i + 1, a, b)

\* std::sort on fewer than sixteen elements (libstdc++): one insertion sort;
\* val moves left past every element it sorts before
RECURSIVE LinearInsert(_, _, _)
LinearInsert(order_bys, s, val) ==
  IF s # <<>> /\ SortCmp(order_bys, 1, val, s[Len(s)])
    THEN Append(LinearInsert(order_bys, SubSeq(s, 1, Len(s) - 1), val), s[Len(s)])
    ELSE Append(s, val)
RECURSIVE StdSort(_, _)
StdSort(order_bys, s) ==
  IF s = <<>> THEN <<>>
  ELSE LET sorted == StdSort(order_bys, SubSeq(s, 1, Len(s) - 1))
           val == s[Len(s)]
       IN IF sorted # <<>> /\ SortCmp(order_bys, 1, val, sorted[1])
            THEN <<val>> \o sorted
            ELSE LinearInsert(order_bys, sorted, val)

\* std::priority_queue over a vector (libstdc++): element i of the heap is c[i + 1]
HeapAt(c, i) == c[i + 1]
HeapSet(c, i, x) == [c EXCEPT ![i + 1] = x]
\* __push_heap: value climbs from the hole while its parent sorts before it
RECURSIVE PushHeap(_, _, _, _)
PushHeap(order_bys, c, holeIndex, value) ==
  LET parent == (holeIndex - 1) \div 2
  IN IF holeIndex > 0 /\ TopNCmp(order_bys, 1, HeapAt(c, parent), value)
       THEN PushHeap(order_bys, HeapSet(c, holeIndex, HeapAt(c, parent)), parent, value)
       ELSE HeapSet(c, holeIndex, value)
\* __adjust_heap: the hole sinks to a leaf along the larger children
RECURSIVE SinkHole(_, _, _, _)
SinkHole(order_bys, c, holeIndex, len) ==
  IF holeIndex < (len - 1) \div 2
    THEN LET right == 2 * (holeIndex + 1)
             secondChild == IF TopNCmp(order_bys, 1, HeapAt(c, right), HeapAt(c, right - 1))
                              THEN right - 1 ELSE right
         IN SinkHole(order_bys, HeapSet(c, holeIndex, HeapAt(c, secondChild)), secondChild, len)
    ELSE IF len % 2 = 0 /\ holeIndex = (len - 2) \div 2
           THEN [c |-> HeapSet(c, holeIndex, HeapAt(c, 2 * (holeIndex + 1) - 1)),
                 holeIndex |-> 2 * (holeIndex + 1) - 1]
           ELSE [c |-> c, holeIndex |-> holeIndex]
\* pq.push(x): push_back, then push_heap
PqPush(order_bys, c, x) == PushHeap(order_bys, Append(c, x), Len(c), x)
\* pq.pop(): pop_heap moves the top to the back, then pop_back drops it
PqPop(order_bys, c) ==
  IF Len(c) <= 1 THEN <<>>
  ELSE LET len == Len(c) - 1
           value == c[Len(c)]
           sunk == SinkHole(order_bys, SubSeq(c, 1, len), 0, len)
       IN PushHeap(order_bys, sunk.c, sunk.holeIndex, value)
PqTop(c) == c[1]

\* the first loop of TopNExecutor::Init over the child's rows from row i on
RECURSIVE TopNFill(_, _, _, _, _)
TopNFill(order_bys, n, rows, i, pq) ==
  IF i > Len(rows) THEN pq
  ELSE LET pushed == PqPush(order_bys, pq, rows[i])
       IN TopNFill(order_bys, n, rows, i + 1,
                   IF Len(pushed) > n THEN PqPop(order_bys, pushed) ELSE pushed)
\* the second loop: the tops in the order they are popped
RECURSIVE TopNDrain(_, _)
TopNDrain(order_bys, pq) ==
  IF pq = <<>> THEN <<>>
  ELSE <<PqTop(pq)>> \o TopNDrain(order_bys, PqPop(order_bys, pq))
Reverse(s) == [i \in 1 .. Len(s) |-> s[Len(s) + 1 - i]]

\* the members of a TopNExecutor after the body of Init: the child is drained
\* from where it stands, the queue is emptied onto the end of tuple_list_, and
\* the whole of tuple_list_ is reversed
TopNInitBody(t, order_bys, n) ==
  LET child == t.child
      rows == SubSeq(child.rows, child.cursor + 1, Len(child.rows))
      pq == TopNFill(order_bys, n, rows, 1, <<>>)
  IN [t EXCEPT !.child.cursor = Len(child.rows),
               !.tuple_list_ = Reverse(@ \o TopNDrain(order_bys, pq)),
               !.cursor_ = 0,
               !.pc = "inited"]

\* TopNExecutor::Init: the child is not initialised and tuple_list_ is not cleared
TopNInit ==
  /\ exec.op = "Order"
  /\ proc = "running"
  /\ exec.topn.pc = "made"
  /\ IF ~ChildNextDefined(exec.topn.child)
       THEN proc' = "crashed" /\ UNCHANGED exec
       ELSE /\ exec' = [exec EXCEPT !.topn = TopNInitBody(@, exec.order_bys, exec.n)]
            /\ UNCHANGED proc
  /\ UNCHANGED <<replacer_, bpmVars, ret, scanVars, schedVars, guardVars, hashVars>>

\* SortExecutor::Init
SortInitBody(t, order_bys) ==
  LET child == ChildInit(t.child)
  IN [t EXCEPT !.child = [child EXCEPT !.cursor = Len(child.rows)],
               !.tuple_list_ = StdSort(order_bys, child.rows),
               !.cursor_ = 0,
               !.pc = "inited"]

SortInit ==
  /\ exec.op = "Order"
  /\ proc = "running"
  /\ exec.sort.pc = "made"
  /\ exec' = [exec EXCEPT !.sort = SortInitBody(@, exec.order_bys)]
  /\ UNCHANGED execOthers

\* TopNExecutor::Next and SortExecutor::Next: the tuple at the cursor, or false
OrderNext(x) ==
  /\ exec.op = "Order"
  /\ proc = "running"
  /\ exec[x].pc = "inited"
  /\ exec' = IF exec[x].cursor_ = Len(exec[x].tuple_list_)
               THEN [exec EXCEPT ![x].pc = "end"]
               ELSE [exec EXCEPT ![x].out = Append(@, exec[x].tuple_list_[exec[x].cursor_ + 1]),
                                 ![x].cursor_ = @ + 1]
  /\ UNCHANGED execOthers

NewOrderExecutor(kind, rows) ==
  [child |-> ChildExecutor(kind, rows), tuple_list_ |-> <<>>, cursor_ |-> 0,
   pc |-> "made", out |-> <<>>, inits |-> 0, first |-> <<>>]

\* a TopN and a Sort executor over equal children and the same order keys
InitOrder ==
  /\ replacer_ = LRUKReplacer(PoolSize, 2)
  /\ InitPool
  /\ ScanIdle
  /\ SchedulerClients
  /\ GuardsIdle
  /\ ht = NoTable
  /\ \E kind \in ChildKinds, len \in 0 .. MaxRows, n \in 0 .. MaxRows, order_bys \in OrderBys :
       \E rows \in [1 .. len -> OrderTuples] :
         exec = [op |-> "Order", order_bys |-> order_bys, n |-> n,
                 topn |-> NewOrderExecutor(kind, rows),
                 sort |-> NewOrderExecutor(kind, rows)]

NextOrder == TopNInit \/ SortInit \/ (\E x \in {"topn", "sort"} : OrderNext(x))

SpecOrder == InitOrder /\ [][NextOrder]_vars

Min(a, b) == IF a < b THEN a ELSE b

\* C26 (as claimed): TopN runs to its end, and what it has emitted by then is
\* the first N tuples of what the Sort executor emits over the same input and
\* order keys.
C26_TopNIsSortPrefix ==
  exec.op = "Order"
    => /\ proc = "running"
       /\ (exec.topn.pc = "end" /\ exec.sort.pc = "end")
            => exec.topn.out = SubSeq(exec.sort.out, 1, Min(exec.n, Len(exec.sort.out)))

\* the same with the crash left aside: only runs in which TopN reaches its end
TiesEmittedAsSorted ==
  (exec.op = "Order" /\ exec.topn.pc = "end" /\ exec.sort.pc = "end")
    => exec.topn.out = SubSeq(exec.sort.out, 1, Min(exec.n, Len(exec.sort.out)))

\* ---- NestedLoopJoin
\* the value ValueFactory::GetNullValueByType makes; column values start at 1
NullValue == 0
JoinValues == 1 .. (MaxValue + 1)
JoinTypes == {"INNER", "LEFT"}
LeftJoinRemainedLeftTuple(left_tuple) == <<left_tuple, NullValue>>
InnerJoinTuple(left_tuple, right_tuple) == <<left_tuple, right_tuple>>
\* left_has_next = left_executor_->Next(&left_tuple_, &left_rid)
LeftNext(e) ==
  IF ChildHasNext(e.left)
    THEN [e EXCEPT !.left = ChildNext(@), !.left_has_next = TRUE,
                   !.left_tuple_ = e.left.rows[e.left.cursor + 1]]
    ELSE [e EXCEPT !.left_has_next = FALSE]

\* the right child is exhausted: is the current left tuple emitted padded?
PadsAlways(e) == e.join_type = "LEFT"
PadsRemainedLeft(e) == e.join_type = "LEFT" /\ ~e.current_left_has_done

\* plan_->Predicate()->EvaluateJoin(...) is neither null nor false; the plans of
\* the model join on left = right; every pair matches in the variant
IsMatchAlways(left_tuple, right_tuple) == TRUE
IsMatch(left_tuple, right_tuple) == left_tuple = right_tuple

\* the loop of NestedLoopJoinExecutor::Next up to its return
RECURSIVE NljLoop(_)
NljLoop(e) ==
  IF ~e.left_has_next THEN [e EXCEPT !.pc = "end"]
  ELSE IF ~ChildHasNext(e.right)
    THEN IF PadsRemainedLeft(e)
           THEN [e EXCEPT !.out = Append(@, LeftJoinRemainedLeftTuple(e.left_tuple_)),
                          !.current_left_has_done = TRUE]
           ELSE NljLoop([LeftNext([e EXCEPT !.right = ChildInit(@), !.right_inits = @ + 1])
                           EXCEPT !.current_left_has_done = FALSE])
    ELSE LET right_tuple == e.right.rows[e.right.cursor + 1]
             pulled == [e EXCEPT !.right = ChildNext(@)]
         IN IF IsMatch(e.left_tuple_, right_tuple)
              THEN [pulled EXCEPT !.out = Append(@, InnerJoinTuple(e.left_tuple_, right_tuple)),
                                  !.current_left_has_done = TRUE]
              ELSE NljLoop(pulled)

\* NestedLoopJoinExecutor::Init: both children are initialised, the first left
\* tuple is fetched; current_left_has_done is left as it is
NljInit ==
  /\ exec.op = "NestedLoopJoin"
  /\ exec.pc = "made"
  /\ exec' = [LeftNext([exec EXCEPT !.left = ChildInit(@), !.right = ChildInit(@),
                                     !.right_inits = @ + 1])
                EXCEPT !.pc = "inited"]
  /\ UNCHANGED execOthers

NljNext ==
  /\ exec.op = "NestedLoopJoin"
  /\ exec.pc = "inited"
  /\ exec' = NljLoop(exec)
  /\ UNCHANGED execOthers

\* any join of two children of up to MaxRows one-column tuples on l = r; no
\* match was produced before the first tuple is looked at
InitNlj ==
  /\ replacer_ = LRUKReplacer(PoolSize, 2)
  /\ InitPool
  /\ ScanIdle
  /\ SchedulerClients
  /\ GuardsIdle
  /\ ht = NoTable
  /\ \E kind \in ChildKinds, join_type \in JoinTypes, m \in 0 .. MaxRows, n \in 0 .. MaxRows :
       \E l \in [1 .. m -> JoinValues], r \in [1 .. n -> JoinValues] :
         exec = [op |-> "NestedLoopJoin", pc |-> "made", join_type |-> join_type,
                 left |-> ChildExecutor(kind, l), right |-> ChildExecutor(kind, r),
                 left_tuple_ |-> NullValue, left_has_next |-> FALSE,
                 current_left_has_done |-> FALSE, out |-> <<>>, right_inits |-> 0]

NextNlj == NljInit \/ NljNext

SpecNlj == InitNlj /\ [][NextNlj]_vars

IsPrefix(s, t) == Len(s) <= Len(t) /\ s = SubSeq(t, 1, Len(s))

\* the scenario: a LEFT join of left (1), (2) with right (2), (3)
LeftJoinScenario ==
  /\ exec.op = "NestedLoopJoin"
  /\ exec.join_type = "LEFT"
  /\ exec.left.rows = <<1, 2>>
  /\ exec.right.rows = <<2, 3>>

\* C27 (as claimed): the scenario emits exactly two tuples, (2,2) first and
\* (1,null) second.
C27_ScenarioClaimed ==
  LeftJoinScenario
    => /\ IsPrefix(exec.out, <<<<2, 2>>, <<1, NullValue>>>>)
       /\ exec.pc = "end" => Len(exec.out) = 2

\* C27 (amended): the scenario emits exactly two tuples, (1,null) first and
\* (2,2) second: the tuples come out in the order of the left child.
C27_Scenario ==
  LeftJoinScenario
    => /\ IsPrefix(exec.out, <<<<1, NullValue>>, <<2, 2>>>>)
       /\ exec.pc = "end" => Len(exec.out) = 2

C27_Witness ==
  /\ LeftJoinScenario
  /\ exec.pc = "end"
  /\ exec.out = <<<<1, NullValue>>, <<2, 2>>>>

\* ---- HashJoin
MaxJoinRows == 2
MaxKeyLen == 2
\* a key is the vector of the key expressions' values; a child row is its key
HashKeys == [1 .. MaxKeyLen -> {NullValue} \cup (1 .. MaxValue)]
\* Value::CompareEquals: CmpNull when either side is null
CompareEquals(a, b) ==
  IF a = NullValue \/ b = NullValue THEN "CmpNull"
  ELSE IF a = b THEN "CmpTrue" ELSE "CmpFalse"
\* HashJoinKey::operator==
KeyEqualsUnlessFalse(key, other) ==
  \A i \in 1 .. Len(other) : CompareEquals(key[i], other[i]) # "CmpFalse"
KeyEquals(key, other) ==
  \A i \in 1 .. Len(other) : CompareEquals(key[i], other[i]) = "CmpTrue"
\* std::hash<HashJoinKey>: folds the non-null components, in order
KeyHash(key) == SelectSeq(key, LAMBDA v : v # NullValue)
\* ht_.find(join_key): the position of the entry with this hash that compares
\* equal, 0 for end()
JhtFind(jht, join_key) ==
  LET hits == {i \in 1 .. Len(jht) : /\ KeyHash(jht[i].key) = KeyHash(join_key)
                                     /\ KeyEquals(jht[i].key, join_key)}
  IN IF hits = {} THEN 0 ELSE CHOOSE i \in hits : \A j \in hits : i <= j
\* SimpleHashJoinHashTable::InsertKey
InsertKey(jht, join_key, tuple) ==
  LET at == JhtFind(jht, join_key)
  IN IF at = 0 THEN Append(jht, [key |-> join_key, tuples |-> <<tuple>>])
     ELSE [jht EXCEPT ![at].tuples = Append(@, tuple)]
\* the loop of HashJoinExecutor::Init over the right child's rows from row i on
RECURSIVE BuildJht(_, _, _)
BuildJht(rows, i, jht) ==
  IF i > Len(rows) THEN jht
  ELSE BuildJht(rows, i + 1, InsertKey(jht, rows[i], [row |-> i, key |-> rows[i]]))

\* the probe for left_tuple_: right_tuple_list_, its cursor, current_left_has_done_
Probe(e) ==
  LET list == JhtFind(e.jht_, e.left_tuple_.key)
  IN [e EXCEPT !.right_tuple_list_ = list,
               !.jht_right_tuple_list_cursor_ = IF list # 0 THEN 0 ELSE @,
               !.current_left_has_done_ = (list # 0)]
\* left_has_next_ = left_executor_->Next(&left_tuple_, &left_rid_)
HjLeftNext(e) ==
  IF ChildHasNext(e.left)
    THEN [e EXCEPT !.left = ChildNext(@), !.left_has_next_ = TRUE,
                   !.left_tuple_ = [row |-> e.left.cursor + 1,
                                    key |-> e.left.rows[e.left.cursor + 1]]]
    ELSE [e EXCEPT !.left_has_next_ = FALSE]

\* HashJoinExecutor::Init. With an empty left child the key expressions are
\* evaluated on a default-constructed tuple: the probe finds any bucket or
\* none, or the read faults
HjInit ==
  /\ exec.op = "HashJoin"
  /\ proc = "running"
  /\ exec.pc = "made"
  /\ LET first == HjLeftNext([exec EXCEPT !.left = ChildInit(@), !.right = ChildInit(@)])
         built == [first EXCEPT !.jht_ = BuildJht(exec.right.rows, 1, <<>>),
                                !.right.cursor = Len(exec.right.rows),
                                !.pc = "inited"]
     IN IF first.left_has_next_
          THEN exec' = Probe(built) /\ UNCHANGED proc
          ELSE \/ proc' = "crashed" /\ UNCHANGED exec
               \/ /\ \E key \in HashKeys :
                       exec' = Probe([built EXCEPT !.left_tuple_.key = key])
                  /\ UNCHANGED proc
  /\ UNCHANGED <<replacer_, bpmVars, ret, scanVars, schedVars, guardVars, hashVars>>

\* the loop of HashJoinExecutor::Next up to its return
RECURSIVE HjLoop(_)
HjLoop(e) ==
  IF ~e.left_has_next_ THEN [e EXCEPT !.pc = "end"]
  ELSE IF /\ e.right_tuple_list_ # 0
          /\ e.jht_right_tuple_list_cursor_ # Len(e.jht_[e.right_tuple_list_].tuples)
    THEN LET right_tuple ==
               e.jht_[e.right_tuple_list_].tuples[e.jht_right_tuple_list_cursor_ + 1]
         IN [e EXCEPT !.out = Append(@, <<e.left_tuple_.row, right_tuple.row>>),
                      !.jht_right_tuple_list_cursor_ = @ + 1]
    ELSE IF e.join_type = "LEFT" /\ ~e.current_left_has_done_
      THEN [e EXCEPT !.out = Append(@, <<e.left_tuple_.row, 0>>),
                     !.current_left_has_done_ = TRUE]
      ELSE HjLoop(Probe(HjLeftNext(e)))

HjNext ==
  /\ exec.op = "HashJoin"
  /\ proc = "running"
  /\ exec.pc = "inited"
  /\ exec' = HjLoop(exec)
  /\ UNCHANGED execOthers

\* any join of two children of up to MaxJoinRows rows
InitHj ==
  /\ replacer_ = LRUKReplacer(PoolSize, 2)
  /\ InitPool
  /\ ScanIdle
  /\ SchedulerClients
  /\ GuardsIdle
  /\ ht = NoTable
  /\ \E join_type \in JoinTypes, m \in 0 .. MaxJoinRows, n \in 0 .. MaxJoinRows :
       \E l \in [1 .. m -> HashKeys], r \in [1 .. n -> HashKeys] :
         exec = [op |-> "HashJoin", pc |-> "made", join_type |-> join_type,
                 left |-> ChildExecutor("SeqScan", l), right |-> ChildExecutor("SeqScan", r),
                 left_tuple_ |-> [row |-> 0, key |-> [i \in 1 .. MaxKeyLen |-> NullValue]],
                 left_has_next_ |-> FALSE, jht_ |-> <<>>, right_tuple_list_ |-> 0,
                 jht_right_tuple_list_cursor_ |-> 0, current_left_has_done_ |-> FALSE,
                 out |-> <<>>]

NextHj == HjInit \/ HjNext

SpecHj == InitHj /\ [][NextHj]_vars

\* two key vectors are equal element by element; a null equals nothing
ElementwiseEqual(a, b) == \A i \in 1 .. MaxKeyLen : a[i] # NullValue /\ a[i] = b[i]
\* the right rows left row i is to be joined with
Matches(i) == {j \in 1 .. Len(exec.right.rows) :
                 ElementwiseEqual(exec.left.rows[i], exec.right.rows[j])}
\* what the join is to emit: <<left row, right row>>, right row 0 for the padding
Joined ==
  {<<i, j>> : i \in 1 .. Len(exec.left.rows), j \in 0 .. Len(exec.right.rows)} \cap
  {x \in (0 .. MaxJoinRows + 1) \X (0 .. MaxJoinRows + 1) :
     \/ x[2] # 0 /\ x[2] \in Matches(x[1])
     \/ x[2] = 0 /\ exec.join_type = "LEFT" /\ Matches(x[1]) = {}}

\* C28: a hash join emits nothing but the left tuples joined with the right
\* tuples whose key equals theirs element by element (a key with a null
\* matches nothing) and, in LEFT mode, the left tuples without a match padded
\* with nulls; it emits each of these once, and all of them by the time Next
\* returns false.
C28_HashJoin ==
  exec.op = "HashJoin"
    => /\ \A n \in 1 .. Len(exec.out) : exec.out[n] \in Joined
       /\ \A n, k \in 1 .. Len(exec.out) : exec.out[n] = exec.out[k] => n = k
       /\ exec.pc = "end" => \A x \in Joined : \E n \in 1 .. Len(exec.out) : exec.out[n] = x

\* a LEFT join at its end that padded a left row with a null in its key although
\* a right row has the same key, and emitted a match for another left row
C28_Witness ==
  /\ exec.op = "HashJoin"
  /\ exec.join_type = "LEFT"
  /\ exec.pc = "end"
  /\ \E i \in 1 .. Len(exec.left.rows) :
       /\ \E j \in 1 .. Len(exec.right.rows) : exec.left.rows[i] = exec.right.rows[j]
       /\ \E n \in 1 .. Len(exec.out) : exec.out[n] = <<i, 0>>
  /\ \E n \in 1 .. Len(exec.out) : exec.out[n][2] # 0

\* ========================================================================
\* DiskExtendibleHashTable: header page -> directory pages -> bucket pages.
\* ht.pages is the content of the table's pages, page id p at position p + 1.

MaxKeys == 3
MaxHashBits == 3
MaxHeaderDepth == 1
MaxDirDepth == 2
MaxBucketSize == 2
MaxHtPages == 5
MaxHtValue == 1

HtKeys == 1 .. MaxKeys
HtValues == 1 .. MaxHtValue
HashValues == 0 .. (2 ^ MaxHashBits - 1)
\* the arrays of a directory page
DirSlots == 0 .. (2 ^ MaxDirDepth - 1)
\* capacity of a bucket page initialised without an argument: more than any
\* table of the model holds
HTableBucketArraySize == MaxKeys + 1

\* ---- ExtendibleHTableHeaderPage
HeaderInit(max_depth) ==
  [type |-> "header", max_depth_ |-> max_depth,
   directory_page_ids_ |-> [i \in 0 .. (2 ^ MaxHeaderDepth - 1) |-> INVALID_PAGE_ID]]
\* the max_depth_ high bits of the hash
HashToDirectoryIndex(header, hash) ==
  IF header.max_depth_ = 0 THEN 0 ELSE hash \div (2 ^ (MaxHashBits - header.max_depth_))

\* ---- ExtendibleHTableDirectoryPage
\* Init leaves local_depths_ as the fresh page has them: zero
DirInit(max_depth) ==
  [type |-> "directory", max_depth_ |-> max_depth, global_depth_ |-> 0,
   local_depths_ |-> [i \in DirSlots |-> 0],
   bucket_page_ids_ |-> [i \in DirSlots |-> IF i < 2 ^ max_depth THEN INVALID_PAGE_ID ELSE 0]]
DirSize(d) == 2 ^ d.global_depth_
HashToBucketIndex(d, hash) ==
  IF d.max_depth_ = 0 THEN 0 ELSE hash % (2 ^ d.global_depth_)
\* (bucket_idx & local_depth_mask) with bit local_depth + 1 flipped instead
GetSplitImageIndexAbove(d, bucket_idx) ==
  LET local_depth == d.local_depths_[bucket_idx]
      masked == bucket_idx % (2 ^ local_depth)
  IN (masked + 2 ^ local_depth) % (2 ^ MaxDirDepth)
\* (bucket_idx & local_depth_mask) ^ (1 << (local_depth - 1))
GetSplitImageIndex(d, bucket_idx) ==
  LET local_depth == d.local_depths_[bucket_idx]
      masked == bucket_idx % (2 ^ local_depth)
      bit == 2 ^ (local_depth - 1)
  IN IF (masked \div bit) % 2 = 1 THEN masked - bit ELSE masked + bit
IncrGlobalDepth(d) ==
  IF d.global_depth_ = d.max_depth_ THEN d
  ELSE LET old_size == DirSize(d)
           new_size == 2 * old_size
           upper(i) == old_size <= i /\ i < new_size
       IN [d EXCEPT !.global_depth_ = @ + 1,
                    !.bucket_page_ids_ = [i \in DirSlots |-> IF upper(i) THEN @[i - old_size] ELSE @[i]],
                    !.local_depths_ = [i \in DirSlots |-> IF upper(i) THEN @[i - old_size] ELSE @[i]]]
DecrGlobalDepth(d) ==
  IF d.global_depth_ > 0 THEN [d EXCEPT !.global_depth_ = @ - 1] ELSE d
CanShrinkAnyway(d) == d.global_depth_ > 0
CanShrink(d) ==
  /\ d.global_depth_ > 0
  /\ \A i \in 0 .. (DirSize(d) - 1) : d.global_depth_ # d.local_depths_[i]
\* while (dir_page->CanShrink()) dir_page->DecrGlobalDepth()
RECURSIVE Shrink(_)
Shrink(d) == IF CanShrink(d) THEN Shrink(DecrGlobalDepth(d)) ELSE d

\* ---- ExtendibleHTableBucketPage: entries are <<key, value>>
BucketInit(max_size) == [type |-> "bucket", max_size_ |-> max_size, entries |-> <<>>]
BucketLookup(b, key) == {i \in 1 .. Len(b.entries) : b.entries[i][1] = key}
IsFull(b) == Len(b.entries) >= b.max_size_
IsEmpty(b) == b.entries = <<>>
BucketInsert(b, key, value) ==
  IF IsFull(b) \/ BucketLookup(b, key) # {} THEN b
  ELSE [b EXCEPT !.entries = Append(@, <<key, value>>)]
BucketRemove(b, key) == [b EXCEPT !.entries = SelectSeq(@, LAMBDA x : x[1] # key)]
BucketClear(b) == [b EXCEPT !.entries = <<>>]

\* ---- the table's pages
PageAt(t, page_id) == t.pages[page_id + 1]
SetPage(t, page_id, page) == [t EXCEPT !.pages[page_id + 1] = page]
\* bpm_->NewPageGuarded(&page_id): the new page has the next id
AllocPage(t, page) == [t EXCEPT !.pages = Append(@, page)]
Hash(t, key) == t.hash_fn_[key]

\* the page an entry of the bucket being split goes to; everything stays
\* where it was in the variant
SplitTargetKept(d, hash, bucket_page_id) == bucket_page_id
SplitTarget(d, hash, bucket_page_id) == d.bucket_page_ids_[HashToBucketIndex(d, hash)]

\* the last loop of SplitBucket over the entries from entry i on; an entry whose
\* target is neither page fails the assertion
RECURSIVE Redistribute(_, _, _, _, _, _, _)
Redistribute(t, d, entries, i, bucket_page_id, split_page_id, acc) ==
  IF i > Len(entries) THEN acc
  ELSE LET entry == entries[i]
           target_page_id == SplitTarget(d, Hash(t, entry[1]), bucket_page_id)
       IN Redistribute(t, d, entries, i + 1, bucket_page_id, split_page_id,
            IF target_page_id = bucket_page_id
              THEN [acc EXCEPT !.bucket = BucketInsert(@, entry[1], entry[2])]
              ELSE IF target_page_id = split_page_id
                THEN [acc EXCEPT !.split_bucket = BucketInsert(@, entry[1], entry[2])]
                ELSE [acc EXCEPT !.asserted = FALSE])

\* the sources hold two texts of disk_extendible_hash_table.cpp: the one at
\* its path initialises the split image with split_bucket->Init(), the unnamed
\* one with split_bucket->Init(bucket_max_size_)
Texts == {"disk_extendible_hash_table.cpp", "part_003"}
SplitBucketSize(t) ==
  IF t.text = "part_003" THEN t.bucket_max_size_ ELSE HTableBucketArraySize

\* SplitBucket(directory, bucket, bucket_idx) on the pages of t; log records
\* what the split found and what it left
SplitBucket(t, directory_page_id, bucket_page, bucket_idx) ==
  LET split_page_id == Len(t.pages)
      directory == PageAt(t, directory_page_id)
      split_idx == GetSplitImageIndex(directory, bucket_idx)
      local_depth == directory.local_depths_[bucket_idx]
      idx_diff == 2 ^ local_depth
      inSize(i) == 0 <= i /\ i < DirSize(directory)
      ofBucket == {i \in DirSlots : inSize(i) /\ i # bucket_idx
                                    /\ i % idx_diff = bucket_idx % idx_diff}
      ofSplit == {split_idx} \cup {i \in DirSlots : inSize(i)
                                                    /\ i % idx_diff = split_idx % idx_diff}
      d == [directory EXCEPT
              !.bucket_page_ids_ = [i \in DirSlots |-> IF i \in ofSplit THEN split_page_id ELSE @[i]],
              !.local_depths_ = [i \in DirSlots |-> IF i \in ofSplit \cup ofBucket
                                                     THEN local_depth ELSE @[i]]]
      bucket_page_id == d.bucket_page_ids_[bucket_idx]
      bucket == PageAt(t, bucket_page)
      moved == Redistribute(t, d, bucket.entries, 1, bucket_page_id, split_page_id,
                 [bucket |-> BucketClear(bucket),
                  split_bucket |-> BucketInit(SplitBucketSize(t)),
                  asserted |-> TRUE])
  IN [t |-> SetPage(SetPage(AllocPage(t, moved.split_bucket), directory_page_id, d),
                    bucket_page, moved.bucket),
      asserted |-> moved.asserted,
      log |-> [directory |-> d, bucket_page_id |-> bucket_page_id,
               split_page_id |-> split_page_id, before |-> bucket.entries,
               bucket |-> moved.bucket.entries, split_bucket |-> moved.split_bucket.entries]]

\* Insert(key, value) on the pages, from the access to the header page on
RECURSIVE InsertPages(_, _, _, _)
InsertPages(t, key, value, splits) ==
  LET header == PageAt(t, t.header_page_id_)
      hash == Hash(t, key)
      directory_idx == HashToDirectoryIndex(header, hash)
      has_directory == header.directory_page_ids_[directory_idx] # INVALID_PAGE_ID
      directory_page_id == IF has_directory THEN header.directory_page_ids_[directory_idx]
                           ELSE Len(t.pages)
      t1 == IF has_directory THEN t
            ELSE SetPage(AllocPage(t, DirInit(t.directory_max_depth_)), t.header_page_id_,
                         [header EXCEPT !.directory_page_ids_[directory_idx] = directory_page_id])
      directory == PageAt(t1, directory_page_id)
      bucket_idx == HashToBucketIndex(directory, hash)
      has_bucket == directory.bucket_page_ids_[bucket_idx] # INVALID_PAGE_ID
      bucket_page_id == IF has_bucket THEN directory.bucket_page_ids_[bucket_idx]
                        ELSE Len(t1.pages)
      t2 == IF has_bucket THEN t1
            ELSE SetPage(AllocPage(t1, BucketInit(t.bucket_max_size_)), directory_page_id,
                         [directory EXCEPT !.bucket_page_ids_[bucket_idx] = bucket_page_id,
                                           !.local_depths_[bucket_idx] = 0])
      d2 == PageAt(t2, directory_page_id)
      bucket == PageAt(t2, bucket_page_id)
      at_global == d2.local_depths_[bucket_idx] = d2.global_depth_
  IN IF BucketLookup(bucket, key) # {}
       THEN [t |-> t2, ok |-> FALSE, asserted |-> TRUE, splits |-> splits]
     ELSE IF ~IsFull(bucket)
       THEN [t |-> SetPage(t2, bucket_page_id, BucketInsert(bucket, key, value)),
             ok |-> TRUE, asserted |-> TRUE, splits |-> splits]
     ELSE IF at_global /\ d2.global_depth_ >= d2.max_depth_
       THEN [t |-> t2, ok |-> FALSE, asserted |-> TRUE, splits |-> splits]
     ELSE LET grown == IF at_global THEN IncrGlobalDepth(d2) ELSE d2
              ready == [grown EXCEPT !.local_depths_[bucket_idx] = @ + 1]
              s == SplitBucket(SetPage(t2, directory_page_id, ready),
                               directory_page_id, bucket_page_id, bucket_idx)
          IN IF ~s.asserted
               THEN [t |-> s.t, ok |-> FALSE, asserted |-> FALSE,
                     splits |-> Append(splits, s.log)]
               ELSE InsertPages(s.t, key, value, Append(splits, s.log))

\* GetValue(key, result) on the pages: the value found, 0 for false
GetValuePages(t, key) ==
  LET header == PageAt(t, t.header_page_id_)
      directory_page_id == header.directory_page_ids_[HashToDirectoryIndex(header, Hash(t, key))]
      directory == PageAt(t, directory_page_id)
      bucket_page_id == directory.bucket_page_ids_[HashToBucketIndex(directory, Hash(t, key))]
      bucket == PageAt(t, bucket_page_id)
  IN IF directory_page_id = INVALID_PAGE_ID THEN 0
     ELSE IF bucket_page_id = INVALID_PAGE_ID THEN 0
     ELSE IF BucketLookup(bucket, key) = {} THEN 0
     ELSE bucket.entries[CHOOSE i \in BucketLookup(bucket, key) : TRUE][2]

\* TryMergeBucketRecursive(directory, bucket, bucket_idx) on the pages
RECURSIVE TryMergeBucketRecursive(_, _, _)
TryMergeBucketRecursive(t, directory_page_id, bucket_idx) ==
  LET directory == PageAt(t, directory_page_id)
      split_image_bucket_index == GetSplitImageIndex(directory, bucket_idx)
      split_image_bucket_page_index == directory.bucket_page_ids_[split_image_bucket_index]
      bucket_page_index == directory.bucket_page_ids_[bucket_idx]
      local_depth == directory.local_depths_[bucket_idx] - 1
      diff == 2 ^ local_depth
      aliases == {i \in DirSlots : /\ i < DirSize(directory) /\ i # bucket_idx
                                   /\ i % diff = bucket_idx % diff}
      merged == [directory EXCEPT
                   !.local_depths_ = [i \in DirSlots |-> IF i \in aliases \cup {bucket_idx}
                                                          THEN local_depth ELSE @[i]],
                   !.bucket_page_ids_ = [i \in DirSlots |-> IF i \in aliases
                                                             THEN bucket_page_index ELSE @[i]]]
  IN IF directory.local_depths_[bucket_idx] = 0 THEN t
     ELSE IF split_image_bucket_page_index = INVALID_PAGE_ID THEN t
     ELSE IF ~IsEmpty(PageAt(t, split_image_bucket_page_index)) THEN t
     ELSE IF directory.local_depths_[bucket_idx]
               # directory.local_depths_[split_image_bucket_index] THEN t
     ELSE TryMergeBucketRecursive(
            SetPage(SetPage(t, split_image_bucket_page_index,
                            BucketClear(PageAt(t, split_image_bucket_page_index))),
                    directory_page_id, merged),
            directory_page_id, bucket_idx)

\* the end of Remove without its loop
ShrinkAllSkipped(t, directory_page_id) == t
\* the end of Remove: shrink the directory while it can
ShrinkAll(t, directory_page_id) ==
  SetPage(t, directory_page_id, Shrink(PageAt(t, directory_page_id)))

\* Remove(key) on the pages
RemovePages(t, key) ==
  LET header_page == PageAt(t, t.header_page_id_)
      hash_key == Hash(t, key)
      dir_page_id == header_page.directory_page_ids_[HashToDirectoryIndex(header_page, hash_key)]
      dir_page == PageAt(t, dir_page_id)
      bucket_index == HashToBucketIndex(dir_page, hash_key)
      bucket_page_id == dir_page.bucket_page_ids_[bucket_index]
      bucket_page == PageAt(t, bucket_page_id)
      removed == SetPage(t, bucket_page_id, BucketRemove(bucket_page, key))
  IN IF dir_page_id = INVALID_PAGE_ID THEN [t |-> t, ok |-> FALSE]
     ELSE IF bucket_page_id = INVALID_PAGE_ID THEN [t |-> t, ok |-> FALSE]
     ELSE IF BucketLookup(bucket_page, key) = {} THEN [t |-> t, ok |-> FALSE]
     ELSE IF ~IsEmpty(PageAt(removed, bucket_page_id)) THEN [t |-> removed, ok |-> TRUE]
     ELSE [t |-> ShrinkAll(TryMergeBucketRecursive(removed, dir_page_id, bucket_index),
                           dir_page_id),
           ok |-> TRUE]

\* ---- the table's operations through the page guards
\* the guard FetchPageRead / FetchPageWrite returns for a page: as the
\* constructors are written it holds no page; as the guards are specified it
\* holds the page it was fetched for
FetchedGuard(type, page_id) ==
  IF ht.guards = "as written" THEN LatchedPageGuard(type, 1, page_id, page_id)
  ELSE [LatchedPageGuard(type, 1, page_id, page_id) EXCEPT !.page_ = page_id]
\* As / AsMut of a guard without a page dereference a null pointer
Call(op, key, value, ok, out, splits) ==
  [op |-> op, key |-> key, value |-> value, ok |-> ok, out |-> out, splits |-> splits]
\* FetchPageRead / FetchPageWrite have latched the header page by then
NullDereference(op, key, value) ==
  /\ proc' = "crashed"
  /\ ht' = [ht EXCEPT !.last = Call(op, key, value, FALSE, 0, <<>>),
                      !.latched = @ \cup {ht.header_page_id_}]

htOthers == <<replacer_, bpmVars, ret, scanVars, schedVars, guardVars, execVars>>

HtInsert(key, value) ==
  /\ ht.pc = "table"
  /\ proc = "running"
  /\ IF FetchedGuard("write", ht.header_page_id_).page_ = NoFrame
       THEN NullDereference("Insert", key, value)
       ELSE LET r == InsertPages(ht, key, value, <<>>)
            IN /\ Len(r.t.pages) <= MaxHtPages
               /\ ht' = [r.t EXCEPT
                    !.model[key] = IF r.ok THEN value ELSE @,
                    !.last = Call("Insert", key, value, r.ok, 0, r.splits)]
               /\ proc' = IF r.asserted THEN proc ELSE "crashed"
  /\ UNCHANGED htOthers

HtGetValue(key) ==
  /\ ht.pc = "table"
  /\ proc = "running"
  /\ IF FetchedGuard("read", ht.header_page_id_).page_ = NoFrame
       THEN NullDereference("GetValue", key, 0)
       ELSE /\ ht' = [ht EXCEPT !.last = Call("GetValue", key, 0,
                                               GetValuePages(ht, key) # 0,
                                               GetValuePages(ht, key), <<>>)]
            /\ UNCHANGED proc
  /\ UNCHANGED htOthers

\* global_depth of the directory page key maps to
GlobalDepthOf(t, key) ==
  LET header == PageAt(t, t.header_page_id_)
  IN PageAt(t, header.directory_page_ids_[HashToDirectoryIndex(header, Hash(t, key))]).global_depth_

\* out records by how much a successful Remove lowered global_depth
HtRemove(key) ==
  /\ ht.pc = "table"
  /\ proc = "running"
  /\ IF FetchedGuard("write", ht.header_page_id_).page_ = NoFrame
       THEN NullDereference("Remove", key, 0)
       ELSE LET r == RemovePages(ht, key)
                shrunk == IF r.ok THEN GlobalDepthOf(ht, key) - GlobalDepthOf(r.t, key) ELSE 0
            IN /\ ht' = [r.t EXCEPT
                    !.model[key] = IF r.ok THEN 0 ELSE @,
                    !.last = Call("Remove", key, 0, r.ok, shrunk, <<>>)]
               /\ UNCHANGED proc
  /\ UNCHANGED htOthers

\* a GetValue in steps: where it is, the page ids it has read, and the value
\* its key had when it started
NoLookup ==
  [pc |-> "idle", key |-> 0, directory_page_id |-> INVALID_PAGE_ID,
   bucket_page_id |-> INVALID_PAGE_ID, present |-> 0, ok |-> FALSE, out |-> 0]

\* the table after its constructor: the header page alone
NewTable(built, text, header_max_depth, directory_max_depth, bucket_max_size, hash_fn) ==
  [pc |-> "table", guards |-> built, text |-> text, header_max_depth_ |-> header_max_depth,
   directory_max_depth_ |-> directory_max_depth, bucket_max_size_ |-> bucket_max_size,
   hash_fn_ |-> hash_fn, header_page_id_ |-> 0, pages |-> <<HeaderInit(header_max_depth)>>,
   model |-> [k \in HtKeys |-> 0], last |-> Call("none", 0, 0, FALSE, 0, <<>>),
   lookup |-> NoLookup, latched |-> {}]

InitTable(built) ==
  /\ replacer_ = LRUKReplacer(PoolSize, 2)
  /\ InitPool
  /\ ScanIdle
  /\ SchedulerClients
  /\ GuardsIdle
  /\ exec = NoExec
  /\ \E header_max_depth \in 0 .. MaxHeaderDepth, directory_max_depth \in 0 .. MaxDirDepth,
        bucket_max_size \in 1 .. MaxBucketSize, hash_fn \in [HtKeys -> HashValues],
        text \in Texts :
       \* keys are interchangeable: one table for each multiset of hash values
       /\ \A k \in HtKeys : k < MaxKeys => hash_fn[k] <= hash_fn[k + 1]
       \* the bits of a hash between those the header page and those a
       \* directory page can look at are zero
       /\ \A k \in HtKeys :
            (hash_fn[k] % (2 ^ (MaxHashBits - header_max_depth)))
              \div (2 ^ directory_max_depth) = 0
       /\ ht = NewTable(built, text, header_max_depth, directory_max_depth, bucket_max_size,
                        hash_fn)

NextHash ==
  \/ \E key \in HtKeys, value \in HtValues : HtInsert(key, value)
  \/ \E key \in HtKeys : HtGetValue(key)
  \/ \E key \in HtKeys : HtRemove(key)

\* the table as the sources build it
InitHash == InitTable("as written")
SpecHash == InitHash /\ [][NextHash]_vars

\* the table's page logic, with read and write guards that hold their page
InitHashPages == InitTable("as specified")
SpecHashPages == InitHashPages /\ [][NextHash]_vars

\* every directory page of the table
Directories == {p \in 0 .. (Len(ht.pages) - 1) : ht.pages[p + 1].type = "directory"}
TableBuilt == ht.pc = "table"

\* C21 (as claimed): GetValue(k) returns the value of the last successful
\* Insert of k that no successful Remove of k followed, and false when there is
\* none.
C21_RoundTrip ==
  (TableBuilt /\ ht.last.op = "GetValue")
    => /\ proc = "running"
       /\ ht.last.ok = (ht.model[ht.last.key] # 0)
       /\ ht.last.out = ht.model[ht.last.key]

SplitScenario ==
  /\ TableBuilt
  /\ ht.directory_max_depth_ = 2 /\ ht.bucket_max_size_ = 2 /\ ht.header_max_depth_ = 0
  /\ \A k \in HtKeys : Hash(ht, k) % (2 ^ ht.directory_max_depth_) = 0

\* C24 (as claimed, with keys 1, 2, 3 in the place of 0, 4, 8): in the scenario
\* every Insert of a key that is not in the table succeeds, the third one
\* after driving global_depth to 2, and every key inserted is found.
C24_SplitScenario ==
  (SplitScenario /\ ht.last.op = "Insert")
    => /\ proc = "running"
       /\ ht.last.ok \/ ht.model[ht.last.key] # 0
       /\ \A k \in HtKeys : ht.model[k] # 0 => GetValuePages(ht, k) = ht.model[k]

C35_ReplacerMatchesPool ==
  (Running /\ ~Latched)
    => /\ Size(replacer_) = Cardinality({f \in Frames : Mapped(f) /\ pages_[f].pin_count = 0})
       /\ \A f \in Frames :
            InFreeList(f) > 0 => ~Evictable(f) /\ replacer_.access_count_[f] = 0

\* ---- NestedLoopJoin in general
\* what a join of the left rows from row i on emits, in order: for each left
\* row its matches in the order of the right rows, or the padded row when a
\* LEFT join finds none
RECURSIVE MatchesOf(_, _, _)
MatchesOf(left_tuple, right_rows, j) ==
  IF j > Len(right_rows) THEN <<>>
  ELSE (IF left_tuple = right_rows[j] THEN <<InnerJoinTuple(left_tuple, right_rows[j])>>
        ELSE <<>>) \o MatchesOf(left_tuple, right_rows, j + 1)
RECURSIVE JoinOf(_, _, _, _)
JoinOf(join_type, left_rows, right_rows, i) ==
  IF i > Len(left_rows) THEN <<>>
  ELSE LET found == MatchesOf(left_rows[i], right_rows, 1)
       IN (IF found = <<>> /\ join_type = "LEFT"
             THEN <<LeftJoinRemainedLeftTuple(left_rows[i])>> ELSE found)
          \o JoinOf(join_type, left_rows, right_rows, i + 1)

\* C36: a nested loop join emits, and by the time Next returns false has
\* emitted, exactly the concatenations of the pairs the predicate holds on and,
\* in LEFT mode, each left tuple without a match once, padded with nulls, never
\* one that had a match; the right child has been re-initialised once for
\* every left tuple gone through, and Next returns false once the left child
\* is exhausted.
C36_NestedLoopJoin ==
  exec.op = "NestedLoopJoin"
    => LET joined == JoinOf(exec.join_type, exec.left.rows, exec.right.rows, 1)
       IN /\ IsPrefix(exec.out, joined)
          /\ exec.pc = "end"
               => /\ exec.out = joined
                  /\ ~exec.left_has_next /\ ~ChildHasNext(exec.left)
                  /\ exec.right_inits = 1 + Len(exec.left.rows)
          /\ exec.pc = "inited" /\ exec.left_has_next
               => exec.right_inits = 1 + (exec.left.cursor - 1)

\* a LEFT join at its end that emitted two matches of one left tuple and padded
\* another left tuple
C36_Witness ==
  /\ exec.op = "NestedLoopJoin" /\ exec.join_type = "LEFT" /\ exec.pc = "end"
  /\ \E n \in 1 .. (Len(exec.out) - 1) :
       /\ exec.out[n][1] = exec.out[n + 1][1]
       /\ exec.out[n][2] # NullValue /\ exec.out[n + 1][2] # NullValue
  /\ \E n \in 1 .. Len(exec.out) : exec.out[n][2] = NullValue

\* ---- Init() called again on a Sort or a TopN executor
\* the caller's record of a run that is over: what the first Init() prepared
\* is kept in first, the output of the new run starts empty
Again(t) ==
  [t EXCEPT !.inits = @ + 1, !.first = IF t.inits = 0 THEN t.tuple_list_ ELSE @,
            !.out = <<>>]

\* Init() on an executor that is inited, partly drained or at its end
TopNReInit ==
  /\ exec.op = "Order"
  /\ proc = "running"
  /\ exec.topn.pc \in {"inited", "end"}
  /\ exec.topn.inits = 0
  /\ exec' = [exec EXCEPT !.topn = TopNInitBody(Again(@), exec.order_bys, exec.n)]
  /\ UNCHANGED execOthers

SortReInit ==
  /\ exec.op = "Order"
  /\ proc = "running"
  /\ exec.sort.pc \in {"inited", "end"}
  /\ exec.sort.inits = 0
  /\ exec' = [exec EXCEPT !.sort = SortInitBody(Again(@), exec.order_bys)]
  /\ UNCHANGED execOthers

\* one executor, a TopN or a Sort, over any child; the other is left out
InitReinit ==
  /\ replacer_ = LRUKReplacer(PoolSize, 2)
  /\ InitPool
  /\ ScanIdle
  /\ SchedulerClients
  /\ GuardsIdle
  /\ ht = NoTable
  /\ \E kind \in ChildKinds, len \in 0 .. MaxRows, n \in 0 .. MaxRows, order_bys \in OrderBys,
        x \in {"topn", "sort"} :
       \E rows \in [1 .. len -> OrderTuples] :
         exec = [op |-> "Order", order_bys |-> order_bys, n |-> n,
                 topn |-> [NewOrderExecutor(kind, rows)
                             EXCEPT !.pc = IF x = "topn" THEN "made" ELSE "left out"],
                 sort |-> [NewOrderExecutor(kind, rows)
                             EXCEPT !.pc = IF x = "sort" THEN "made" ELSE "left out"]]

NextReinit == NextOrder \/ TopNReInit \/ SortReInit

SpecReinit == InitReinit /\ [][NextReinit]_vars

\* C40 (as claimed): Init() never faults for want of an initialised child, and
\* a Sort or TopN executor that was initialised again and then drained has
\* emitted what its first Init() had prepared to emit, in the same order.
C40_ReinitSameOutput ==
  exec.op = "Order"
    => /\ proc = "running"
       /\ \A x \in {"topn", "sort"} :
            (exec[x].inits = 1 /\ exec[x].pc = "end") => exec[x].out = exec[x].first

\* ---- Insert executor: table heap and indexes
\* C38 (as claimed): when the Insert executor has finished, the index entries
\* it inserted are, one for one, the tuples it stored in the table heap, each
\* under the RID InsertTuple returned for it; a child tuple the heap rejected
\* has no index entry.
C38_InsertIndexCoherent ==
  (exec.op = "Insert" /\ exec.pc \in {"emitted", "end"})
    => /\ Len(exec.index) = Len(exec.heap)
       /\ \A n \in 1 .. Len(exec.index) :
            n <= Len(exec.heap)
              => /\ exec.index[n].key = exec.heap[n].val
                 /\ exec.index[n].rid = exec.heap[n].rid

\* ========================================================================
\* IndexScanExecutor over a table heap: exec.table is the heap, the tuple of
\* RID r at position r; exec.rid_list_ is what ScanKey returned in Init()

\* a tuple of the heap: its indexed column and its TupleMeta
HeapTuples == [val : 1 .. MaxValue, is_deleted_ : BOOLEAN]

\* IndexScanExecutor::Next: the loop up to its return. The loop goes round
\* without advancing cursor_ when the tuple at the cursor is marked deleted, so
\* the call never returns; the filter is evaluated and its result not used
IndexScanNextBody(e) ==
  IF e.cursor_ = Len(e.rid_list_) THEN [e EXCEPT !.pc = "end"]
  ELSE LET rid == e.rid_list_[e.cursor_ + 1]
       IN IF e.table[rid].is_deleted_ THEN [e EXCEPT !.pc = "never returns"]
          ELSE [e EXCEPT !.out = Append(@, <<e.table[rid].val, rid>>),
                         !.cursor_ = @ + 1]

IndexScanNext ==
  /\ exec.op = "IndexScan"
  /\ exec.pc = "inited"
  /\ exec' = IndexScanNextBody(exec)
  /\ UNCHANGED execOthers

\* an index scan after Init(), over any heap of up to MaxRows tuples and any
\* list of distinct RIDs of that heap
InitIndexScan ==
  /\ replacer_ = LRUKReplacer(PoolSize, 2)
  /\ InitPool
  /\ ScanIdle
  /\ SchedulerClients
  /\ GuardsIdle
  /\ ht = NoTable
  /\ \E n \in 0 .. MaxRows, m \in 0 .. MaxRows :
       \E table \in [1 .. n -> HeapTuples], rid_list \in [1 .. m -> 1 .. n] :
         /\ \A i, j \in 1 .. m : rid_list[i] = rid_list[j] => i = j
         /\ exec = [op |-> "IndexScan", pc |-> "inited", table |-> table,
                    rid_list_ |-> rid_list, cursor_ |-> 0, out |-> <<>>]

NextIndexScan == IndexScanNext

SpecIndexScan == InitIndexScan /\ [][NextIndexScan]_vars

\* the RIDs of s from position i on whose tuple is not marked deleted, with
\* their tuples
RECURSIVE LiveOf(_, _, _)
LiveOf(table, s, i) ==
  IF i > Len(s) THEN <<>>
  ELSE (IF table[s[i]].is_deleted_ THEN <<>> ELSE <<<<table[s[i]].val, s[i]>>>>)
       \o LiveOf(table, s, i + 1)

\* C37 (as claimed): every call of Next returns; the tuples yielded are those
\* of the RIDs not marked deleted, in list order, and Next returns false after
\* the last RID.
C37_IndexScanTerminates ==
  exec.op = "IndexScan"
    => /\ exec.pc # "never returns"
       /\ IsPrefix(exec.out, LiveOf(exec.table, exec.rid_list_, 1))
       /\ exec.pc = "end" => exec.out = LiveOf(exec.table, exec.rid_list_, 1)

\* ========================================================================
\* The seq-scan-as-index-scan rewrite: one table with a hash index on its
\* column, changed by Insert, Update and Delete statements and read by the
\* SeqScan with an equality filter and by the IndexScan that replaces it.
\* exec.table is the heap (the tuple of RID r at position r), exec.index maps a
\* key to the RID stored under it, 0 when the key is absent

\* the RID a log entry of an executor names: the n-th tuple this statement
\* stored, or the RID of the child's i-th row
ResolveRid(rid, base, child_rids) ==
  IF rid[1] = "heap" THEN base + rid[2]
  ELSE IF rid[1] = "child" THEN child_rids[rid[2]] ELSE 0

\* the table heap after the heap operations of a statement from entry i on
RECURSIVE ApplyHeap(_, _, _, _, _)
ApplyHeap(table, log, i, base, child_rids) ==
  IF i > Len(log) THEN table
  ELSE LET r == ResolveRid(log[i].rid, base, child_rids)
           t == CASE log[i].op = "InsertTuple"
                       -> Append(table, [val |-> log[i].val, is_deleted_ |-> FALSE])
                  [] log[i].op = "UpdateTupleInPlace"
                       -> [table EXCEPT ![r] = [val |-> log[i].val, is_deleted_ |-> FALSE]]
                  [] log[i].op = "UpdateTupleMeta"
                       -> [table EXCEPT ![r].is_deleted_ = TRUE]
       IN ApplyHeap(t, log, i + 1, base, child_rids)

\* the hash index after the index operations of a statement from entry i on:
\* InsertEntry is the hash table's Insert, which refuses a key that is present;
\* DeleteEntry is its Remove, by key
RECURSIVE ApplyIndex(_, _, _, _, _)
ApplyIndex(index, log, i, base, child_rids) ==
  IF i > Len(log) THEN index
  ELSE LET r == ResolveRid(log[i].rid, base, child_rids)
           x == IF log[i].op = "InsertEntry"
                  THEN IF index[log[i].key] # 0 THEN index
                       ELSE [index EXCEPT ![log[i].key] = r]
                  ELSE [index EXCEPT ![log[i].key] = 0]
       IN ApplyIndex(x, log, i + 1, base, child_rids)

\* ScanKey: the hash table's GetValue into a list of RIDs
ScanKey(index, key) == IF index[key] = 0 THEN <<>> ELSE <<index[key]>>

\* SeqScanExecutor::Next until it returns false, from RID r on: the RIDs of the
\* tuples not marked deleted that pass the filter (key 0: no filter)
RECURSIVE SeqScanRids(_, _, _)
SeqScanRids(table, key, r) ==
  IF r > Len(table) THEN <<>>
  ELSE (IF table[r].is_deleted_ \/ (key # 0 /\ table[r].val # key) THEN <<>> ELSE <<r>>)
       \o SeqScanRids(table, key, r + 1)

\* a statement's executor over its child, before Init()
Statement(op, rows) ==
  [op |-> op, pc |-> "made", child |-> ChildExecutor(IF op = "Insert" THEN "Values" ELSE "SeqScan", rows),
   has_called_ |-> FALSE, out |-> <<>>, heap |-> <<>>, index |-> <<>>]

\* the heap and the index after a statement's executor ran over the child rows
AfterStatement(e, done, child_rids) ==
  [e EXCEPT !.table = ApplyHeap(e.table, done.heap, 1, Len(e.table), child_rids),
            !.index = ApplyIndex(e.index, done.index, 1, Len(e.table), child_rids),
            !.scan = [key |-> 0, seq |-> {}, idx |-> <<>>, pc |-> "none"]]

\* the rows a scan child yields for the RIDs in s
RowsOf(table, s) == [i \in 1 .. Len(s) |-> [val |-> table[s[i]].val, ok |-> TRUE]]

\* INSERT of one row
RewriteInsert ==
  /\ exec.op = "Rewrite"
  /\ Len(exec.table) < MaxRows
  /\ \E val \in 1 .. MaxValue :
       exec' = AfterStatement(exec,
                 InsertLoop(Statement("Insert", <<[val |-> val, ok |-> TRUE]>>), 1, 0), <<>>)
  /\ UNCHANGED execOthers

\* UPDATE of every row: the child is a SeqScan without a filter
RewriteUpdate ==
  /\ exec.op = "Rewrite"
  /\ LET s == SeqScanRids(exec.table, 0, 1)
     IN /\ s # <<>>
        /\ exec' = AfterStatement(exec,
                     UpdateLoop(Statement("Update", RowsOf(exec.table, s)), 1, 0, InvalidRid), s)
  /\ UNCHANGED execOthers

\* DELETE of the rows with one key: the child is a SeqScan with the filter
RewriteDelete ==
  /\ exec.op = "Rewrite"
  /\ \E key \in 1 .. MaxValue :
       LET s == SeqScanRids(exec.table, key, 1)
       IN /\ s # <<>>
          /\ exec' = AfterStatement(exec,
                       DeleteLoop(Statement("Delete", RowsOf(exec.table, s)), 1, 0, InvalidRid), s)
  /\ UNCHANGED execOthers

\* Next() of the index scan until it returns false or fails to return
RECURSIVE IndexScanDrain(_)
IndexScanDrain(e) ==
  IF e.pc # "inited" THEN e ELSE IndexScanDrain(IndexScanNextBody(e))

\* SELECT with an equality filter, run as planned and as rewritten
RewriteScan ==
  /\ exec.op = "Rewrite"
  /\ \E key \in 1 .. MaxValue :
       LET s == SeqScanRids(exec.table, key, 1)
           x == IndexScanDrain([op |-> "IndexScan", pc |-> "inited", table |-> exec.table,
                                rid_list_ |-> ScanKey(exec.index, key), cursor_ |-> 0,
                                out |-> <<>>])
       IN exec' = [exec EXCEPT !.scan = [key |-> key,
                                         seq |-> {<<exec.table[s[i]].val, s[i]>> : i \in 1 .. Len(s)},
                                         idx |-> x.out, pc |-> x.pc]]
  /\ UNCHANGED execOthers

\* an empty table with its empty index
InitRewrite ==
  /\ replacer_ = LRUKReplacer(PoolSize, 2)
  /\ InitPool
  /\ ScanIdle
  /\ SchedulerClients
  /\ GuardsIdle
  /\ ht = NoTable
  /\ exec = [op |-> "Rewrite", table |-> <<>>, index |-> [k \in 1 .. MaxValue |-> 0],
             scan |-> [key |-> 0, seq |-> {}, idx |-> <<>>, pc |-> "none"]]

NextRewrite == RewriteInsert \/ RewriteUpdate \/ RewriteDelete \/ RewriteScan

SpecRewrite == InitRewrite /\ [][NextRewrite]_vars

\* C39 (as claimed): over every table and index the Insert, Update and Delete
\* executors can produce, the index scan that replaces a sequential scan with
\* an equality filter returns from every Next and emits the same set of
\* (tuple, RID) pairs as the sequential scan.
C39_RewritePreservesResults ==
  (exec.op = "Rewrite" /\ exec.scan.pc # "none")
    => /\ exec.scan.pc = "end"
       /\ {exec.scan.idx[i] : i \in 1 .. Len(exec.scan.idx)} = exec.scan.seq

\* ========================================================================
\* Termination of Insert

\* the bucket page key maps to, and its directory slot's depths
TargetOf(t, key) ==
  LET header == PageAt(t, t.header_page_id_)
      directory == PageAt(t, header.directory_page_ids_[HashToDirectoryIndex(header, Hash(t, key))])
      bucket_idx == HashToBucketIndex(directory, Hash(t, key))
  IN [bucket |-> PageAt(t, directory.bucket_page_ids_[bucket_idx]),
      local_depth |-> directory.local_depths_[bucket_idx],
      global_depth |-> directory.global_depth_, max_depth |-> directory.max_depth_]

\* C31 (as claimed): every Insert returns, after at most directory max_depth
\* splits; it returns true with the key placed, or false, and then the stored
\* pairs are what they were; false for a key that is not in the table means
\* that the key's bucket is full with local_depth = global_depth = max_depth.
C31_InsertTerminates ==
  (TableBuilt /\ ht.last.op = "Insert")
    => /\ proc = "running"
       /\ Len(ht.last.splits) <= ht.directory_max_depth_
       /\ ht.last.ok => GetValuePages(ht, ht.last.key) = ht.last.value
       /\ ~ht.last.ok => \A k \in HtKeys : GetValuePages(ht, k) = ht.model[k]
       /\ (~ht.last.ok /\ ht.model[ht.last.key] = 0)
            => LET x == TargetOf(ht, ht.last.key)
               IN /\ IsFull(x.bucket)
                  /\ x.local_depth = x.global_depth
                  /\ x.global_depth = x.max_depth

\* ========================================================================
\* The directory after Insert and Remove

LookupStart(key) ==
  /\ ht.pc = "table"
  /\ proc = "running"
  /\ ht.lookup.pc \in {"idle", "done"}
  /\ IF FetchedGuard("read", ht.header_page_id_).page_ = NoFrame
       THEN NullDereference("GetValue", key, 0)
       ELSE LET header == PageAt(ht, ht.header_page_id_)
                directory_page_id ==
                  header.directory_page_ids_[HashToDirectoryIndex(header, Hash(ht, key))]
            IN /\ ht' = [ht EXCEPT !.lookup =
                           [NoLookup EXCEPT
                              !.pc = IF directory_page_id = INVALID_PAGE_ID
                                       THEN "done" ELSE "directory",
                              !.key = key, !.directory_page_id = directory_page_id,
                              !.present = ht.model[key]]]
               /\ UNCHANGED proc
  /\ UNCHANGED htOthers

\* from FetchPageRead(directory_page_id) to directory_guard.Drop()
LookupDirectory ==
  /\ ht.pc = "table"
  /\ proc = "running"
  /\ ht.lookup.pc = "directory"
  /\ LET directory == PageAt(ht, ht.lookup.directory_page_id)
         bucket_page_id ==
           directory.bucket_page_ids_[HashToBucketIndex(directory, Hash(ht, ht.lookup.key))]
     IN ht' = [ht EXCEPT !.lookup.bucket_page_id = bucket_page_id,
                         !.lookup.pc = IF bucket_page_id = INVALID_PAGE_ID
                                         THEN "done" ELSE "bucket"]
  /\ UNCHANGED <<proc, htOthers>>

\* from FetchPageRead(bucket_page_id) to the return
LookupBucket ==
  /\ ht.pc = "table"
  /\ proc = "running"
  /\ ht.lookup.pc = "bucket"
  /\ LET bucket == PageAt(ht, ht.lookup.bucket_page_id)
         found == BucketLookup(bucket, ht.lookup.key)
     IN ht' = [ht EXCEPT !.lookup.pc = "done",
                         !.lookup.directory_page_id = INVALID_PAGE_ID,
                         !.lookup.bucket_page_id = INVALID_PAGE_ID,
                         !.lookup.ok = (found # {}),
                         !.lookup.out = IF found = {} THEN 0
                                        ELSE bucket.entries[CHOOSE i \in found : TRUE][2]]
  /\ UNCHANGED <<proc, htOthers>>

\* a lookup is running
LookupRuns == ht.lookup.pc \in {"directory", "bucket"}

\* pages the table may allocate beside a lookup in steps
MaxThreadPages == 4

\* the other thread removes no key a running lookup is looking for; a lookup
\* that has returned is followed by the next lookup
NextHashThreads ==
  \/ \E key \in HtKeys : LookupStart(key)
  \/ LookupDirectory
  \/ LookupBucket
  \/ \E key \in HtKeys, value \in HtValues :
       /\ ht.lookup.pc # "done"
       /\ HtInsert(key, value)
       /\ Len(ht'.pages) <= MaxThreadPages
  \/ \E key \in HtKeys :
       /\ ht.lookup.pc # "done"
       /\ LookupRuns => key # ht.lookup.key
       /\ HtRemove(key)

\* one directory; the table as the sources build it, and with guards that
\* hold their page
InitHashThreads ==
  /\ replacer_ = LRUKReplacer(PoolSize, 2)
  /\ InitPool
  /\ ScanIdle
  /\ SchedulerClients
  /\ GuardsIdle
  /\ exec = NoExec
  /\ \E built \in {"as written", "as specified"}, directory_max_depth \in 0 .. MaxDirDepth,
        bucket_max_size \in 1 .. MaxBucketSize, hash_fn \in [HtKeys -> HashValues],
        text \in Texts :
       /\ \A k \in HtKeys : k < MaxKeys => hash_fn[k] <= hash_fn[k + 1]
       /\ \A k \in HtKeys : hash_fn[k] \div (2 ^ directory_max_depth) = 0
       /\ ht = NewTable(built, text, 0, directory_max_depth, bucket_max_size, hash_fn)

SpecHashThreads == InitHashThreads /\ [][NextHashThreads]_vars

C34_OperationsReturn ==
  TableBuilt
    => /\ proc = "running"
       /\ ~LookupRuns => ht.latched = {}

====
